---- MODULE Spec2Model ----
(***************************************************************************)
(* A model of the stateful measures of habitat/tasks/nav/object_nav_task.py *)
(* (Ram81/objectnav): the region containment tests, RoomVisitationMap,      *)
(* ObjectNavReward and ExplorationMetrics.                                  *)
(*                                                                         *)
(* Numbers.  Python floats are modelled by exact integers in fixed units:   *)
(*   - lengths (positions, box centres and sizes): 1 unit = 0.05;           *)
(*   - rewards, distances-to-goal, ratios, visibilities: 1 unit = 1/Scale.  *)
(* Python sequences are 0-indexed and TLA+ sequences 1-indexed: axis i of   *)
(* the source is component i+1 here (the vertical axis, index 1, is 2).     *)
(***************************************************************************)
EXTENDS Integers, Sequences, FiniteSets, TLC

VARIABLES
    \* --- the containment tests, applied to one point and one box
    g_loc, g_aabb, g_called, g_out,
    \* --- the simulator and the episode, as the measures read them
    sim_scene, sim_position, episode_goals,
    \* --- RoomVisitationMap
    rvm_room_aabbs, rvm_goal_rooms, rvm_room_visitation_map,
    rvm_goal_room_visitation_map, rvm_metric,
    \* --- the configuration and the measures ObjectNavReward reads
    cfg_mode, measures,
    \* --- ObjectNavReward
    onr_step_count, onr_goal_was_seen, onr_previous_distance_to_target,
    onr_previous_exploration_ratio, onr_metric, onr_goal_seen_rewards,
    \* --- the exception that ended ObjectNavReward's last call ("none"
    \*     when it returned) and the method the host called last
    onr_raised, onr_called,
    \* --- the history of an episode in DISTANCE_TO_GOAL mode
    onr_initial_distance, onr_shaping_sum,
    \* --- DistanceToGoalReward and ObjectNavSparseReward: records of their
    \*     attributes
    dgr, osr,
    \* --- ExplorationMetrics: the object, a record of its attributes
    em

vars == <<g_loc, g_aabb, g_called, g_out,
          sim_scene, sim_position, episode_goals,
          rvm_room_aabbs, rvm_goal_rooms, rvm_room_visitation_map,
          rvm_goal_room_visitation_map, rvm_metric,
          cfg_mode, measures,
          onr_step_count, onr_goal_was_seen, onr_previous_distance_to_target,
          onr_previous_exploration_ratio, onr_metric, onr_goal_seen_rewards,
          onr_raised, onr_called, onr_initial_distance, onr_shaping_sum,
          dgr, osr, em>>

geomVars == <<g_loc, g_aabb, g_called, g_out>>
simVars == <<sim_scene, sim_position, episode_goals>>
rvmVars == <<rvm_room_aabbs, rvm_goal_rooms, rvm_room_visitation_map,
             rvm_goal_room_visitation_map, rvm_metric>>
onrVars == <<cfg_mode, measures,
             onr_step_count, onr_goal_was_seen, onr_previous_distance_to_target,
             onr_previous_exploration_ratio, onr_metric, onr_goal_seen_rewards,
             onr_raised, onr_called, onr_initial_distance, onr_shaping_sum>>
rewVars == <<dgr, osr>>

(***************************************************************************)
(* Axis-aligned boxes.  A box is [center, sizes] (habitat_sim's BBox); its  *)
(* sizes are even numbers of units so that sizes / 2.0 is a whole number.   *)
(***************************************************************************)
Axes == 1..3

\* the vertical buffer 0.1 of _is_in, in length units of 0.05
VerticalBuffer == 2

Box(c, s) == [center |-> c, sizes |-> s]

\* aabb.min(): the corner center - sizes/2
AabbMin(aabb) == [i \in Axes |-> aabb.center[i] - (aabb.sizes[i] \div 2)]

\* aabb.max(): the corner center + sizes/2
AabbMax(aabb) == [i \in Axes |-> aabb.center[i] + (aabb.sizes[i] \div 2)]

\* RegionLevelInfo._is_in: strict comparisons, vertical half-size + 0.1.
\* The answers the call can give.  The code compares floats: the sums
\* sizes[1] + 0.1 and center[i] -+ sizes[i] are rounded, so for a point on a
\* face of the padded box (and not outside it on another axis) the strict
\* comparison holds or fails as the rounding of the operands falls; off the
\* faces the answer is the exact one.
RegionLevelInfo_is_in(loc, aabb) ==
    LET og_sizes == [i \in Axes |-> aabb.sizes[i] \div 2]
        sizes == [og_sizes EXCEPT ![2] = og_sizes[2] + VerticalBuffer]
        within(i) == /\ loc[i] > aabb.center[i] - sizes[i]
                     /\ loc[i] < aabb.center[i] + sizes[i]
        beyond(i) == \/ loc[i] < aabb.center[i] - sizes[i]
                     \/ loc[i] > aabb.center[i] + sizes[i]
    IN  IF \A i \in Axes : within(i) THEN {TRUE}
        ELSE IF \E i \in Axes : beyond(i) THEN {FALSE}
        ELSE BOOLEAN

\* RoomVisitationMap.aabb_contains: inclusive on the unpadded box
RoomVisitationMap_aabb_contains(position, aabb) ==
    LET aabb_min == AabbMin(aabb)
        aabb_max == AabbMax(aabb)
    IN  /\ aabb_min[1] <= position[1] /\ aabb_max[1] >= position[1]
        /\ aabb_min[3] <= position[3] /\ aabb_max[3] >= position[3]
        /\ aabb_min[2] <= position[2] /\ aabb_max[2] >= position[2]

\* ExplorationMetrics.aabb_contains: the same text as RoomVisitationMap's
ExplorationMetrics_aabb_contains(position, aabb) ==
    LET aabb_min == AabbMin(aabb)
        aabb_max == AabbMax(aabb)
    IN  /\ aabb_min[1] <= position[1] /\ aabb_max[1] >= position[1]
        /\ aabb_min[3] <= position[3] /\ aabb_max[3] >= position[3]
        /\ aabb_min[2] <= position[2] /\ aabb_max[2] >= position[2]

(***************************************************************************)
(* The containment tests as a state machine: Init draws a point and a box,  *)
(* each action applies one of the three tests and records its answer.       *)
(***************************************************************************)
\* coordinates of the points drawn: 0..GeomMax on each axis
GeomMax == 8

GeomPoints == [Axes -> 0..GeomMax]

GeomBoxes == { Box(<<4, 4, 4>>, <<sx, sy, sz>>) :
                 sx \in {2, 4}, sy \in {2, 4}, sz \in {2, 4} }

GeomIdle ==
    /\ g_loc = <<0, 0, 0>>
    /\ g_aabb = Box(<<0, 0, 0>>, <<0, 0, 0>>)
    /\ g_called = {}
    /\ g_out = [is_in |-> FALSE, rvm |-> FALSE, em |-> FALSE]

GeomInit ==
    /\ g_loc \in GeomPoints
    /\ g_aabb \in GeomBoxes
    /\ g_called = {}
    /\ g_out = [is_in |-> FALSE, rvm |-> FALSE, em |-> FALSE]

CallIsIn ==
    /\ "is_in" \notin g_called
    /\ g_called' = g_called \cup {"is_in"}
    /\ \E answer \in RegionLevelInfo_is_in(g_loc, g_aabb) :
           g_out' = [g_out EXCEPT !.is_in = answer]
    /\ UNCHANGED <<g_loc, g_aabb, simVars, rvmVars, onrVars, rewVars, em>>

CallRvmContains ==
    /\ "rvm" \notin g_called
    /\ g_called' = g_called \cup {"rvm"}
    /\ g_out' = [g_out EXCEPT !.rvm = RoomVisitationMap_aabb_contains(g_loc, g_aabb)]
    /\ UNCHANGED <<g_loc, g_aabb, simVars, rvmVars, onrVars, rewVars, em>>

CallEmContains ==
    /\ "em" \notin g_called
    /\ g_called' = g_called \cup {"em"}
    /\ g_out' = [g_out EXCEPT !.em = ExplorationMetrics_aabb_contains(g_loc, g_aabb)]
    /\ UNCHANGED <<g_loc, g_aabb, simVars, rvmVars, onrVars, rewVars, em>>

(***************************************************************************)
(* Python dictionaries.  A defaultdict(int) is a function whose domain is   *)
(* the set of keys present; a defaultdict(list) keeps its insertion order   *)
(* (the order of iteration) and is a sequence of <<key, list>> pairs.       *)
(* A value that is a reference to a live object of the measure is written   *)
(* as the attribute's name, a string.                                       *)
(***************************************************************************)
EmptyDict == [k \in {} |-> 0]

\* d[k] read without inserting (the value a defaultdict(int) would give)
Get(d, k) == IF k \in DOMAIN d THEN d[k] ELSE 0

\* d[k] += n
Add(d, k, n) == [x \in DOMAIN d \cup {k} |-> IF x = k THEN Get(d, k) + n ELSE d[x]]

\* sum(d.values())
RECURSIVE SumValues(_)
SumValues(d) ==
    IF DOMAIN d = {} THEN 0
    ELSE LET k == CHOOSE x \in DOMAIN d : TRUE
         IN  d[k] + SumValues([x \in DOMAIN d \ {k} |-> d[x]])

Keys(ld) == { ld[i][1] : i \in 1..Len(ld) }

\* ld[k].append(v) on a defaultdict(list)
ListAppend(ld, k, v) ==
    IF k \in Keys(ld)
    THEN [i \in 1..Len(ld) |-> IF ld[i][1] = k THEN <<k, Append(ld[i][2], v)>> ELSE ld[i]]
    ELSE Append(ld, <<k, <<v>>>>)

\* the <<key, element>> pairs in the order the nested for loops visit them
RECURSIVE Items(_)
Items(ld) ==
    IF ld = <<>> THEN <<>>
    ELSE [j \in 1..Len(ld[1][2]) |-> <<ld[1][1], ld[1][2][j]>>] \o Items(Tail(ld))

(***************************************************************************)
(* The simulator and the episode.  A scene is a sequence of levels, a level *)
(* a sequence of regions, a region [category, aabb]; semantic_scene.regions *)
(* is the regions of all levels in order.  An episode's goals are a         *)
(* sequence of goals, a goal being the positions of its view_points.        *)
(***************************************************************************)
Region(cat, aabb) == [category |-> cat, aabb |-> aabb]

BoxA == Box(<<2, 2, 2>>, <<4, 4, 4>>)
BoxB == Box(<<8, 2, 2>>, <<4, 4, 4>>)
BoxC == Box(<<4, 2, 2>>, <<4, 4, 4>>)

\* two overlapping regions of one category, and a third touching the second
SceneBedrooms == << << Region("bedroom", BoxA), Region("bedroom", BoxC),
                       Region("kitchen", BoxB) >> >>
\* a scene without regions
SceneEmpty == << >>
\* two levels of one region each
SceneLevels == << << Region("kitchen", BoxA) >>, << Region("hallway", BoxB) >> >>

Scenes == {SceneBedrooms, SceneEmpty, SceneLevels}

PosA == <<1, 2, 2>>
PosAC == <<3, 2, 2>>
PosC == <<5, 2, 2>>
PosEdge == <<6, 2, 2>>
PosB == <<8, 2, 2>>
PosOut == <<12, 2, 2>>
PosLow == <<1, -1, 2>>

Positions == {PosA, PosAC, PosC, PosEdge, PosB, PosOut, PosLow}

GoalSets == { << <<PosB>> >>, << <<PosOut, PosA>> >>, << <<PosAC>>, <<PosB>> >> }

RECURSIVE Concat(_)
Concat(ss) == IF ss = <<>> THEN <<>> ELSE Head(ss) \o Concat(Tail(ss))

\* semantic_scene.regions
SceneRegions(scene) == Concat(scene)

SimIdle ==
    /\ sim_scene = SceneEmpty
    /\ sim_position = PosOut
    /\ episode_goals = << >>

(***************************************************************************)
(* RoomVisitationMap                                                        *)
(***************************************************************************)
\* no counter is moved past MaxVisits + the regions one step can count
MaxVisits == 3

\* the two loops of update_metric over a defaultdict(list): one increment
\* of counter[region] for every aabb of the region containing the position
RECURSIVE CountContaining(_, _, _)
CountContaining(counter, items, position) ==
    IF items = <<>> THEN counter
    ELSE LET region == items[1][1]
             aabb == items[1][2]
         IN  CountContaining(
                 IF RoomVisitationMap_aabb_contains(position, aabb)
                 THEN Add(counter, region, 1) ELSE counter,
                 Tail(items), position)

\* the state of a RoomVisitationMap
RvmState == [room_aabbs |-> rvm_room_aabbs, goal_rooms |-> rvm_goal_rooms,
             room_visitation_map |-> rvm_room_visitation_map,
             goal_room_visitation_map |-> rvm_goal_room_visitation_map,
             metric |-> rvm_metric]

\* update_metric that starts from fresh counters on every call
RvmUpdateMetricForgetful(self, position) ==
    LET rvm == CountContaining(EmptyDict, Items(self.room_aabbs), position)
        grvm == CountContaining(EmptyDict, Items(self.goal_rooms), position)
    IN  [self EXCEPT !.room_visitation_map = rvm,
                     !.goal_room_visitation_map = grvm,
                     !.metric = [kind |-> "dict",
                                 time_spent_goal_room |-> SumValues(grvm),
                                 room_visitation_map |-> "self.room_visitation_map"]]

\* the loops of update_metric leaving a region's list at its first hit
CountOncePerName(counter, ld, position) ==
    LET hit == { k \in Keys(ld) : \E i \in 1..Len(ld) : /\ ld[i][1] = k
                    /\ \E j \in 1..Len(ld[i][2]) :
                          RoomVisitationMap_aabb_contains(position, ld[i][2][j]) }
    IN  [k \in DOMAIN counter \cup hit |->
            IF k \in hit THEN Get(counter, k) + 1 ELSE counter[k]]

\* update_metric counting a region name at most once per call
RvmUpdateMetricOncePerName(self, position) ==
    LET rvm == CountOncePerName(self.room_visitation_map, self.room_aabbs, position)
        grvm == CountOncePerName(self.goal_room_visitation_map, self.goal_rooms, position)
    IN  [self EXCEPT !.room_visitation_map = rvm,
                     !.goal_room_visitation_map = grvm,
                     !.metric = [kind |-> "dict",
                                 time_spent_goal_room |-> SumValues(grvm),
                                 room_visitation_map |-> "self.room_visitation_map"]]

\* update_metric publishing the sum of all visitation counts
RvmUpdateMetricSumAll(self, position) ==
    LET rvm == CountContaining(self.room_visitation_map, Items(self.room_aabbs), position)
        grvm == CountContaining(self.goal_room_visitation_map, Items(self.goal_rooms), position)
    IN  [self EXCEPT !.room_visitation_map = rvm,
                     !.goal_room_visitation_map = grvm,
                     !.metric = [kind |-> "dict",
                                 time_spent_goal_room |-> SumValues(rvm),
                                 room_visitation_map |-> "self.room_visitation_map"]]

\* RoomVisitationMap.update_metric
RvmUpdateMetric(self, position) ==
    LET rvm == CountContaining(self.room_visitation_map, Items(self.room_aabbs), position)
        grvm == CountContaining(self.goal_room_visitation_map, Items(self.goal_rooms), position)
    IN  [self EXCEPT !.room_visitation_map = rvm,
                     !.goal_room_visitation_map = grvm,
                     !.metric = [kind |-> "dict",
                                 time_spent_goal_room |-> SumValues(grvm),
                                 room_visitation_map |-> "self.room_visitation_map"]]

\* the loop of reset_metric over semantic_scene.regions
RECURSIVE RvmScanRegions(_, _, _)
RvmScanRegions(self, regions, goals) ==
    IF regions = <<>> THEN self
    ELSE LET region == Head(regions)
             region_name == region.category
             aabb == region.aabb
             contains == \E g \in 1..Len(goals) :
                            RoomVisitationMap_aabb_contains(goals[g][1], aabb)
             s1 == [self EXCEPT !.room_aabbs = ListAppend(@, region_name, aabb)]
             s2 == IF contains
                   THEN [s1 EXCEPT !.goal_rooms = ListAppend(@, region_name, aabb)]
                   ELSE s1
         IN  RvmScanRegions(s2, Tail(regions), goals)

\* reset_metric with its update made after the fresh counters are installed
RvmResetMetricUpdateLast(self, scene, goals, position) ==
    LET cleared == [self EXCEPT !.room_aabbs = << >>,
                                !.room_visitation_map = EmptyDict,
                                !.goal_room_visitation_map = EmptyDict,
                                !.goal_rooms = << >>]
        scanned == RvmScanRegions(cleared, SceneRegions(scene), goals)
        updated == RvmUpdateMetric(scanned, position)
    IN  [updated EXCEPT !.metric = [kind |-> "self.room_visitation_map"]]

\* reset_metric adding the new scene's boxes to those it holds
RvmResetMetricKeepBoxes(self, scene, goals, position) ==
    LET updated == RvmUpdateMetric(self, position)
        cleared == [updated EXCEPT !.room_visitation_map = EmptyDict,
                                   !.goal_room_visitation_map = EmptyDict]
        scanned == RvmScanRegions(cleared, SceneRegions(scene), goals)
    IN  [scanned EXCEPT !.metric = [kind |-> "self.room_visitation_map"]]

\* RoomVisitationMap.reset_metric
RvmResetMetric(self, scene, goals, position) ==
    LET updated == RvmUpdateMetric(self, position)
        cleared == [updated EXCEPT !.room_aabbs = << >>,
                                   !.room_visitation_map = EmptyDict,
                                   !.goal_room_visitation_map = EmptyDict,
                                   !.goal_rooms = << >>]
        scanned == RvmScanRegions(cleared, SceneRegions(scene), goals)
    IN  [scanned EXCEPT !.metric = [kind |-> "self.room_visitation_map"]]

RvmSet(s) ==
    /\ rvm_room_aabbs' = s.room_aabbs
    /\ rvm_goal_rooms' = s.goal_rooms
    /\ rvm_room_visitation_map' = s.room_visitation_map
    /\ rvm_goal_room_visitation_map' = s.goal_room_visitation_map
    /\ rvm_metric' = s.metric

\* RoomVisitationMap.__init__
RvmConstructed ==
    /\ rvm_room_aabbs = << >>
    /\ rvm_goal_rooms = << >>
    /\ rvm_room_visitation_map = EmptyDict
    /\ rvm_goal_room_visitation_map = EmptyDict
    /\ rvm_metric = [kind |-> "None"]

\* the host starts an episode: new scene, goals and start position, then reset_metric
RvmReset ==
    \E scene \in Scenes, goals \in GoalSets, position \in Positions :
        /\ sim_scene' = scene
        /\ episode_goals' = goals
        /\ sim_position' = position
        /\ RvmSet(RvmResetMetric(RvmState, scene, goals, position))
        /\ UNCHANGED <<geomVars, onrVars, rewVars, em>>

\* the host steps the simulator, then update_metric
RvmUpdate ==
    /\ rvm_metric.kind # "None"
    /\ \A k \in DOMAIN rvm_room_visitation_map : rvm_room_visitation_map[k] < MaxVisits
    /\ \E position \in Positions :
        /\ sim_position' = position
        /\ RvmSet(RvmUpdateMetric(RvmState, position))
        /\ UNCHANGED <<sim_scene, episode_goals>>
        /\ UNCHANGED <<geomVars, onrVars, rewVars, em>>

RvmNext == RvmReset \/ RvmUpdate

GeomNext == CallIsIn \/ CallRvmContains \/ CallEmContains

(***************************************************************************)
(* ObjectNavReward.  It reads four measures of task.measurements, which the *)
(* host has updated before it calls reset_metric or update_metric.          *)
(* An attribute that may be absent, and a value that may be None, is a      *)
(* sequence: << >> when absent or None, <<v>> when it holds v.              *)
(***************************************************************************)
\* the unit of rewards, distances and ratios: 1.0 is Scale units
Scale == 2 * 2 * 3 * 1000

\* config.SLACK_REWARD (-0.01)
SLACK_REWARD == 0 - (Scale \div 100)
\* config.SUCCESS_REWARD (2.5)
SUCCESS_REWARD == (5 * Scale) \div 2
\* config.GOAL_SEEN_REWARD (1.0)
GOAL_SEEN_REWARD == Scale
\* config.GOAL_SEEN_THRESHOLD (0.1)
GOAL_SEEN_THRESHOLD == Scale \div 10
\* config.EXP_REWARD_COEF, a plain factor
EXP_REWARD_COEF == 2
\* the step count that update_metric compares with: slack after 20 steps
SlackAfter == 20

Modes == {"DISTANCE_TO_GOAL_WHEN_VISIBLE_OTHERWISE_EXPLORE", "DISTANCE_TO_GOAL",
          "EXPLORATION", "SPARSE"}

\* TopDownMap's metric: None, or the label grid "map" and "fog_of_war_mask"
NoMap == [available |-> FALSE]
TopDown(labels, fog) == [available |-> TRUE, map |-> labels, fog_of_war_mask |-> fog]

MapStart == TopDown(<<1, 1, 1, 0>>, <<1, 0, 0, 0>>)
MapHalf == TopDown(<<10, 1, 1, 0>>, <<1, 1, 0, 0>>)
MapFull == TopDown(<<10, 10, 10, 0>>, <<1, 1, 1, 1>>)

RewardMaps == {NoMap, MapStart, MapFull}

DistanceValues == {0, Scale, 3 * Scale}

VisibilityValues == {GOAL_SEEN_THRESHOLD \div 2, GOAL_SEEN_THRESHOLD,
                     (3 * GOAL_SEEN_THRESHOLD) \div 2}

\* the uuids under which task.measurements.measures holds the measures read.
\* The module defines GoalObjectVisible twice; the name is bound to the
\* class defined last, whose cls_uuid is "goal_vis_pixels".
DistanceToGoal_cls_uuid == "distance_to_goal"
TopDownMap_cls_uuid == "top_down_map"
GoalObjectVisible_cls_uuid == "goal_vis_pixels"
Success_cls_uuid == "success"

MeasureUuids == {DistanceToGoal_cls_uuid, TopDownMap_cls_uuid,
                 GoalObjectVisible_cls_uuid, Success_cls_uuid}

\* task.measurements.measures: the uuids present and the value get_metric()
\* returns for each (a measure that is not present has a value nothing can
\* read; it is pinned)
MeasuresOf(present) ==
    { m \in [present : {present}, distance_to_goal : DistanceValues,
             top_down_map : RewardMaps, goal_vis : VisibilityValues,
             success : BOOLEAN] :
        /\ DistanceToGoal_cls_uuid \notin present => m.distance_to_goal = 0
        /\ TopDownMap_cls_uuid \notin present => m.top_down_map = NoMap
        /\ GoalObjectVisible_cls_uuid \notin present =>
               m.goal_vis = GOAL_SEEN_THRESHOLD \div 2
        /\ Success_cls_uuid \notin present => ~m.success }

Measures == MeasuresOf(MeasureUuids)

\* Measurements.check_measure_dependencies: asserts that every dependency
\* is in task.measurements.measures
CheckMeasureDependencies(m, dependencies) == dependencies \subseteq m.present

\* the call ends with the exception exc
Raise(self, exc) == [self EXCEPT !.raised = exc]

RECURSIVE SumSeq(_)
SumSeq(q) == IF q = <<>> THEN 0 ELSE Head(q) + SumSeq(Tail(q))

\* fog_of_war_mask.sum() / fog_of_war_mask.size, or 0.0 without a map
ExplorationRatio(map_measures) ==
    IF map_measures.available
    THEN (SumSeq(map_measures.fog_of_war_mask) * Scale) \div Len(map_measures.fog_of_war_mask)
    ELSE 0

\* the state of an ObjectNavReward, with three history fields:
\* goal_seen_rewards counts the executions of "reward += GOAL_SEEN_REWARD"
\* since the last reset; in DISTANCE_TO_GOAL mode initial_distance is the
\* distance-to-goal the last reset read and shaping_sum the sum of the values
\* reward_distance_to_goal has returned since (both stay 0 in other modes)
OnrState == [step_count |-> onr_step_count,
             goal_was_seen |-> onr_goal_was_seen,
             previous_distance_to_target |-> onr_previous_distance_to_target,
             previous_exploration_ratio |-> onr_previous_exploration_ratio,
             metric |-> onr_metric,
             goal_seen_rewards |-> onr_goal_seen_rewards,
             raised |-> onr_raised,
             initial_distance |-> onr_initial_distance,
             shaping_sum |-> onr_shaping_sum]

\* a method's effect: the object after the call and the value returned
Ret(self, reward) == [self |-> self, reward |-> reward]

\* reward_exploration that keeps the ratio it stored first
reward_exploration_keep(self, m) ==
    LET exploration_ratio == ExplorationRatio(m.top_down_map)
        previous == IF self.previous_exploration_ratio = << >>
                    THEN exploration_ratio
                    ELSE self.previous_exploration_ratio[1]
    IN  Ret([self EXCEPT !.previous_exploration_ratio = <<previous>>],
            (exploration_ratio - previous) * EXP_REWARD_COEF)

\* ObjectNavReward.reward_exploration
reward_exploration(self, m) ==
    IF TopDownMap_cls_uuid \notin m.present THEN Ret(Raise(self, "KeyError"), 0)
    ELSE
    LET exploration_ratio == ExplorationRatio(m.top_down_map)
        previous == IF self.previous_exploration_ratio = << >>
                    THEN exploration_ratio
                    ELSE self.previous_exploration_ratio[1]
    IN  Ret([self EXCEPT !.previous_exploration_ratio = <<exploration_ratio>>],
            (exploration_ratio - previous) * EXP_REWARD_COEF)

\* reward_distance_to_goal that stores the current distance before it
\* subtracts, as DistanceToGoalReward.update_metric does
reward_distance_to_goal_store_first(self, m) ==
    LET s1 == [self EXCEPT !.previous_distance_to_target = m.distance_to_goal]
    IN  Ret(s1, s1.previous_distance_to_target - m.distance_to_goal)

\* reward_distance_to_goal that keeps the old baseline
reward_distance_to_goal_stale(self, m) ==
    Ret(self, self.previous_distance_to_target - m.distance_to_goal)

\* ObjectNavReward.reward_distance_to_goal
reward_distance_to_goal(self, m) ==
    IF DistanceToGoal_cls_uuid \notin m.present THEN Ret(Raise(self, "KeyError"), 0)
    ELSE Ret([self EXCEPT !.previous_distance_to_target = m.distance_to_goal],
             self.previous_distance_to_target - m.distance_to_goal)

\* reward_expl_dt_when_visible whose flag follows the current visibility
reward_expl_dt_when_visible_unlatched(self, m) ==
    LET first == m.goal_vis > GOAL_SEEN_THRESHOLD /\ ~self.goal_was_seen
        s0 == [self EXCEPT !.goal_was_seen = m.goal_vis > GOAL_SEEN_THRESHOLD]
        s1 == IF first
              THEN [s0 EXCEPT !.goal_seen_rewards = @ + 1,
                              !.previous_distance_to_target = m.distance_to_goal]
              ELSE s0
        reward1 == IF first THEN GOAL_SEEN_REWARD ELSE 0
        r == IF s1.goal_was_seen
             THEN reward_distance_to_goal(s1, m)
             ELSE reward_exploration(s1, m)
    IN  Ret(r.self, reward1 + r.reward)

\* reward_expl_dt_when_visible without the "not self._goal_was_seen" test
reward_expl_dt_when_visible_rebonus(self, m) ==
    LET first == m.goal_vis > GOAL_SEEN_THRESHOLD
        s1 == IF first
              THEN [self EXCEPT !.goal_was_seen = TRUE,
                                !.goal_seen_rewards = @ + 1,
                                !.previous_distance_to_target = m.distance_to_goal]
              ELSE self
        reward1 == IF first THEN GOAL_SEEN_REWARD ELSE 0
        r == IF s1.goal_was_seen
             THEN reward_distance_to_goal(s1, m)
             ELSE reward_exploration(s1, m)
    IN  Ret(r.self, reward1 + r.reward)

\* ObjectNavReward.reward_expl_dt_when_visible
reward_expl_dt_when_visible(self, m) ==
    IF GoalObjectVisible_cls_uuid \notin m.present THEN Ret(Raise(self, "KeyError"), 0)
    ELSE
    LET first == m.goal_vis > GOAL_SEEN_THRESHOLD /\ ~self.goal_was_seen
        seen == [self EXCEPT !.goal_was_seen = TRUE, !.goal_seen_rewards = @ + 1]
        s1 == IF ~first THEN self
              ELSE IF DistanceToGoal_cls_uuid \notin m.present
                   THEN Raise(seen, "KeyError")
                   ELSE [seen EXCEPT !.previous_distance_to_target = m.distance_to_goal]
        reward1 == IF first THEN GOAL_SEEN_REWARD ELSE 0
        r == IF s1.goal_was_seen
             THEN reward_distance_to_goal(s1, m)
             ELSE reward_exploration(s1, m)
    IN  IF s1.raised # "none" THEN Ret(s1, 0)
        ELSE Ret(r.self, reward1 + r.reward)

\* update_metric with the slack term from the 20th step on
OnrUpdateMetricSlackFrom20(self, m, mode) ==
    LET s1 == [self EXCEPT !.step_count = @ + 1]
        slack == IF s1.step_count >= SlackAfter THEN SLACK_REWARD ELSE 0
        r == CASE mode = "DISTANCE_TO_GOAL_WHEN_VISIBLE_OTHERWISE_EXPLORE" ->
                    reward_expl_dt_when_visible(s1, m)
               [] mode = "DISTANCE_TO_GOAL" -> reward_distance_to_goal(s1, m)
               [] mode = "EXPLORATION" -> reward_exploration(s1, m)
               [] OTHER -> Ret(s1, 0)
        success == IF m.success THEN SUCCESS_REWARD ELSE 0
    IN  [r.self EXCEPT !.metric = <<slack + r.reward + success>>,
                       !.shaping_sum = IF mode = "DISTANCE_TO_GOAL"
                                       THEN @ + r.reward ELSE @]

\* update_metric whose success reward replaces the reward, "reward =" for
\* "reward +="
OnrUpdateMetricSuccessAlone(self, m, mode) ==
    LET s1 == [self EXCEPT !.step_count = @ + 1]
        slack == IF s1.step_count > SlackAfter THEN SLACK_REWARD ELSE 0
        r == CASE mode = "DISTANCE_TO_GOAL_WHEN_VISIBLE_OTHERWISE_EXPLORE" ->
                    reward_expl_dt_when_visible(s1, m)
               [] mode = "DISTANCE_TO_GOAL" -> reward_distance_to_goal(s1, m)
               [] mode = "EXPLORATION" -> reward_exploration(s1, m)
               [] OTHER -> Ret(s1, 0)
    IN  [r.self EXCEPT !.metric = IF m.success THEN <<SUCCESS_REWARD>>
                                  ELSE <<slack + r.reward>>,
                       !.shaping_sum = IF mode = "DISTANCE_TO_GOAL"
                                       THEN @ + r.reward ELSE @]

\* ObjectNavReward.update_metric
OnrUpdateMetric(self, m, mode) ==
    LET s1 == [self EXCEPT !.step_count = @ + 1]
        slack == IF s1.step_count > SlackAfter THEN SLACK_REWARD ELSE 0
        r == CASE mode = "DISTANCE_TO_GOAL_WHEN_VISIBLE_OTHERWISE_EXPLORE" ->
                    reward_expl_dt_when_visible(s1, m)
               [] mode = "DISTANCE_TO_GOAL" -> reward_distance_to_goal(s1, m)
               [] mode = "EXPLORATION" -> reward_exploration(s1, m)
               [] OTHER -> Ret(s1, 0)
        success == IF m.success THEN SUCCESS_REWARD ELSE 0
    IN  IF r.self.raised # "none" THEN r.self
        ELSE IF Success_cls_uuid \notin m.present THEN Raise(r.self, "KeyError")
        ELSE [r.self EXCEPT !.metric = <<slack + r.reward + success>>,
                            !.shaping_sum = IF mode = "DISTANCE_TO_GOAL"
                                            THEN @ + r.reward ELSE @]

\* the dependencies reset_metric checks, without Success
OnrDependenciesWithoutSuccess ==
    {DistanceToGoal_cls_uuid, TopDownMap_cls_uuid, GoalObjectVisible_cls_uuid}

\* the dependencies ObjectNavReward.reset_metric checks
OnrDependencies ==
    {DistanceToGoal_cls_uuid, TopDownMap_cls_uuid, GoalObjectVisible_cls_uuid,
     Success_cls_uuid}

\* ObjectNavReward.reset_metric
OnrResetMetric(self, m, mode) ==
    IF ~CheckMeasureDependencies(m, OnrDependencies)
    THEN Raise(self, "AssertionError")
    ELSE
    LET s0 == [self EXCEPT !.metric = <<0>>,
                           !.step_count = 0,
                           !.goal_was_seen = FALSE,
                           !.goal_seen_rewards = 0,
                           !.initial_distance = 0,
                           !.shaping_sum = 0]
    IN  IF DistanceToGoal_cls_uuid \notin m.present THEN Raise(s0, "KeyError")
        ELSE OnrUpdateMetric(
                 [s0 EXCEPT !.initial_distance = IF mode = "DISTANCE_TO_GOAL"
                                                 THEN m.distance_to_goal ELSE 0,
                            !.previous_distance_to_target = m.distance_to_goal],
                 m, mode)

OnrSet(s) ==
    /\ onr_step_count' = s.step_count
    /\ onr_goal_was_seen' = s.goal_was_seen
    /\ onr_previous_distance_to_target' = s.previous_distance_to_target
    /\ onr_previous_exploration_ratio' = s.previous_exploration_ratio
    /\ onr_metric' = s.metric
    /\ onr_goal_seen_rewards' = s.goal_seen_rewards
    /\ onr_raised' = s.raised
    /\ onr_initial_distance' = s.initial_distance
    /\ onr_shaping_sum' = s.shaping_sum

\* ObjectNavReward.__init__: the attributes reset_metric assigns do not exist
\* yet (they are given the values reset_metric will overwrite), and
\* _previous_exploration_ratio does not exist until reward_exploration runs
OnrConstructed ==
    /\ onr_step_count = 0
    /\ onr_goal_was_seen = FALSE
    /\ onr_previous_distance_to_target = 0
    /\ onr_previous_exploration_ratio = << >>
    /\ onr_metric = << >>
    /\ onr_goal_seen_rewards = 0
    /\ onr_raised = "none"
    /\ onr_called = "none"
    /\ onr_initial_distance = 0
    /\ onr_shaping_sum = 0

MeasuresIdle ==
    measures = [present |-> MeasureUuids, distance_to_goal |-> 0,
                top_down_map |-> NoMap, goal_vis |-> 0, success |-> FALSE]

OnrIdle == cfg_mode = "SPARSE" /\ MeasuresIdle /\ OnrConstructed

\* updates of one episode the model follows
MaxSteps == 22

\* an exception a measure raises ends the run of the host
Running ==
    /\ onr_raised = "none" /\ dgr.raised = "none"
    /\ osr.raised = "none" /\ em.raised = "none"

\* the host starts an episode, resets the measures read, then reset_metric
OnrResetWith(MeasureSet) ==
    /\ Running
    /\ \E m \in MeasureSet :
        /\ measures' = m
        /\ onr_called' = "reset_metric"
        /\ OnrSet(OnrResetMetric(OnrState, m, cfg_mode))
        /\ UNCHANGED <<cfg_mode, geomVars, simVars, rvmVars, rewVars, em>>

\* the host steps, updates the measures read, then update_metric
OnrUpdateWith(MeasureSet) ==
    /\ Running
    /\ onr_metric # << >>
    /\ onr_step_count < MaxSteps
    /\ \E m \in MeasureSet :
        /\ measures' = m
        /\ onr_called' = "update_metric"
        /\ OnrSet(OnrUpdateMetric(OnrState, m, cfg_mode))
        /\ UNCHANGED <<cfg_mode, geomVars, simVars, rvmVars, rewVars, em>>

OnrReset == OnrResetWith(Measures)
OnrUpdate == OnrUpdateWith(Measures)

OnrNext == OnrReset \/ OnrUpdate

(***************************************************************************)
(* DistanceToGoalReward and ObjectNavSparseReward.  Measure.__init__, which *)
(* both constructors call last, sets _metric to None (<< >> here).          *)
(***************************************************************************)
\* DistanceToGoalReward.__init__
DgrConstructed ==
    [previous_distance_to_target |-> 0, metric |-> << >>, raised |-> "none",
     \* history: the method of the last call that returned
     last_call |-> "none"]

\* the object after a call of the method, which has returned or raised
DgrAfter(method, self) ==
    IF self.raised # "none" THEN self ELSE [self EXCEPT !.last_call = method]

\* the dependencies DistanceToGoalReward.reset_metric checks
DgrDependencies == {Success_cls_uuid, DistanceToGoal_cls_uuid}

\* DistanceToGoalReward.update_metric: the distance is stored before it is
\* subtracted
DgrUpdateMetric(self, m) ==
    IF DistanceToGoal_cls_uuid \notin m.present THEN Raise(self, "KeyError")
    ELSE
    LET distance_to_target == m.distance_to_goal
        s1 == [self EXCEPT !.previous_distance_to_target = distance_to_target]
        reward == s1.previous_distance_to_target - distance_to_target
    IN  IF Success_cls_uuid \notin m.present THEN Raise(s1, "KeyError")
        ELSE [s1 EXCEPT !.metric =
                 <<reward + (IF m.success THEN SUCCESS_REWARD ELSE 0)>>]

\* DistanceToGoalReward.reset_metric
DgrResetMetric(self, m) ==
    IF ~CheckMeasureDependencies(m, DgrDependencies)
    THEN Raise(self, "AssertionError")
    ELSE
    LET s0 == [self EXCEPT !.metric = <<0>>]
    IN  IF DistanceToGoal_cls_uuid \notin m.present THEN Raise(s0, "KeyError")
        ELSE DgrUpdateMetric(
                 [s0 EXCEPT !.previous_distance_to_target = m.distance_to_goal], m)

\* ObjectNavSparseReward.__init__
OsrConstructed == [metric |-> << >>, raised |-> "none"]

\* the dependencies ObjectNavSparseReward.reset_metric checks
OsrDependencies == {Success_cls_uuid}

\* ObjectNavSparseReward.update_metric
OsrUpdateMetric(self, m) ==
    IF Success_cls_uuid \notin m.present THEN Raise(self, "KeyError")
    ELSE [self EXCEPT !.metric = <<IF m.success THEN SUCCESS_REWARD ELSE 0>>]

\* ObjectNavSparseReward.reset_metric
OsrResetMetric(self, m) ==
    IF ~CheckMeasureDependencies(m, OsrDependencies)
    THEN Raise(self, "AssertionError")
    ELSE OsrUpdateMetric([self EXCEPT !.metric = <<0>>], m)

RewIdle == dgr = DgrConstructed /\ osr = OsrConstructed

\* the host resets the measures read, then DistanceToGoalReward.reset_metric
DgrResetWith(MeasureSet) ==
    /\ Running
    /\ \E m \in MeasureSet :
        /\ measures' = m
        /\ dgr' = DgrAfter("reset_metric", DgrResetMetric(dgr, m))
        /\ UNCHANGED <<cfg_mode, onr_step_count, onr_goal_was_seen,
                       onr_previous_distance_to_target,
                       onr_previous_exploration_ratio, onr_metric,
                       onr_goal_seen_rewards, onr_raised, onr_called,
                       onr_initial_distance, onr_shaping_sum,
                       osr, geomVars, simVars, rvmVars, em>>

\* the host updates the measures read, then DistanceToGoalReward.update_metric
DgrUpdateWith(MeasureSet) ==
    /\ Running
    /\ dgr.metric # << >>
    /\ \E m \in MeasureSet :
        /\ measures' = m
        /\ dgr' = DgrAfter("update_metric", DgrUpdateMetric(dgr, m))
        /\ UNCHANGED <<cfg_mode, onr_step_count, onr_goal_was_seen,
                       onr_previous_distance_to_target,
                       onr_previous_exploration_ratio, onr_metric,
                       onr_goal_seen_rewards, onr_raised, onr_called,
                       onr_initial_distance, onr_shaping_sum,
                       osr, geomVars, simVars, rvmVars, em>>

DgrReset == DgrResetWith(Measures)
DgrUpdate == DgrUpdateWith(Measures)

\* the host resets the measures read, then ObjectNavSparseReward.reset_metric
OsrResetWith(MeasureSet) ==
    /\ Running
    /\ \E m \in MeasureSet :
        /\ measures' = m
        /\ osr' = OsrResetMetric(osr, m)
        /\ UNCHANGED <<cfg_mode, onr_step_count, onr_goal_was_seen,
                       onr_previous_distance_to_target,
                       onr_previous_exploration_ratio, onr_metric,
                       onr_goal_seen_rewards, onr_raised, onr_called,
                       onr_initial_distance, onr_shaping_sum,
                       dgr, geomVars, simVars, rvmVars, em>>

\* the host updates the measures read, then ObjectNavSparseReward.update_metric
OsrUpdateWith(MeasureSet) ==
    /\ Running
    /\ \E m \in MeasureSet :
        /\ measures' = m
        /\ osr' = OsrUpdateMetric(osr, m)
        /\ UNCHANGED <<cfg_mode, onr_step_count, onr_goal_was_seen,
                       onr_previous_distance_to_target,
                       onr_previous_exploration_ratio, onr_metric,
                       onr_goal_seen_rewards, onr_raised, onr_called,
                       onr_initial_distance, onr_shaping_sum,
                       dgr, geomVars, simVars, rvmVars, em>>

\* the measures of a task with every measure, and of one without Success
SparseMeasures == Measures \cup MeasuresOf(MeasureUuids \ {Success_cls_uuid})

OsrReset == OsrResetWith(SparseMeasures)
OsrUpdate == OsrUpdateWith(SparseMeasures)

\* the two rewards that carry no shaping, side by side in one task
DgrNext == DgrReset \/ DgrUpdate \/ OsrReset \/ OsrUpdate

(***************************************************************************)
(* ExplorationMetrics.                                                      *)
(* A float is [kind, v]: kind "num" with v in units of 1/Scale, or "nan" or *)
(* "inf", which numpy's division by zero produces (with a warning).         *)
(* A room name is [category, index]: the category name, with index i for    *)
(* the suffix "_i" that reset_metric appends to a bedroom, -1 without one.  *)
(***************************************************************************)
Num(v) == [kind |-> "num", v |-> v]
NaN == [kind |-> "nan", v |-> 0]
Inf == [kind |-> "inf", v |-> 0]

\* a / b of two numpy integers
NpDivide(a, b) ==
    IF b # 0 THEN Num((a * Scale) \div b)
    ELSE IF a = 0 THEN NaN ELSE Inf

\* a - b
FSub(a, b) ==
    CASE a.kind = "num" /\ b.kind = "num" -> Num(a.v - b.v)
      [] a.kind = "inf" /\ b.kind = "num" -> Inf
      [] OTHER -> NaN

\* a + b
FAdd(a, b) ==
    CASE a.kind = "num" /\ b.kind = "num" -> Num(a.v + b.v)
      [] a.kind = "nan" \/ b.kind = "nan" -> NaN
      [] OTHER -> Inf

\* a > c for a number c: false for nan
FGreater(a, c) == a.kind = "inf" \/ (a.kind = "num" /\ a.v > c)

\* a strict threshold of 0.1, above the lenient one
SweepThresholdStrictTenth == Scale \div 10

\* the thresholds 0.015 and 0.01 of the two sweep counts
SweepThreshold == (15 * Scale) \div 1000
SweepThresholdStrict == Scale \div 100

\* the capacity of last_20_actions
WindowSize == 20

ActionNames == {"MOVE_FORWARD", "TURN_LEFT", "TURN_RIGHT", "LOOK_UP"}

\* "TURN" in name, for the names of ActionNames
ContainsTURN(name) == name \in {"TURN_LEFT", "TURN_RIGHT"}

RoomName(cat, idx) == [category |-> cat, index |-> idx]

\* current_room = None
NoRoom == RoomName("None", -1)

\* "bedroom" in region_name, for the categories of the scenes
ContainsBedroom(cat) == cat = "bedroom"

\* the loop of reset_metric over the levels and their regions: st is
\* [room_aabbs, current_room, i]
RECURSIVE EmScanRegions(_, _, _)
EmScanRegions(st, regions, position) ==
    IF regions = <<>> THEN st
    ELSE LET region == Head(regions)
             region_name == IF ContainsBedroom(region.category)
                            THEN RoomName(region.category, st.i)
                            ELSE RoomName(region.category, -1)
             aabb == region.aabb
         IN  EmScanRegions(
                 [room_aabbs |-> ListAppend(st.room_aabbs, region_name, aabb),
                  current_room |-> IF ExplorationMetrics_aabb_contains(position, aabb)
                                   THEN region_name ELSE st.current_room,
                  i |-> st.i + 1],
                 Tail(regions), position)

\* ExplorationMetrics.__init__ (previous_room, coverage and sight_coverage
\* do not exist yet: they are given placeholders nothing reads)
EmConstructed ==
    [room_aabbs |-> << >>,
     previous_room_stack |-> << >>,
     steps_between_rooms |-> 0,
     room_visitation_map |-> EmptyDict,
     room_revisitation_map |-> EmptyDict,
     room_revisitation_map_strict |-> EmptyDict,
     last_20_actions |-> << >>,
     total_left_turns |-> 0,
     total_right_turns |-> 0,
     panoramic_turns |-> 0,
     panoramic_turns_strict |-> 0,
     delta_sight_coverage |-> Num(0),
     prev_sight_coverage |-> Num(0),
     avg_delta_coverage |-> Num(0),
     previous_room |-> NoRoom,
     coverage |-> Num(0),
     sight_coverage |-> Num(0),
     metric |-> [kind |-> "None"],
     raised |-> "none",
     \* history: the action names of the updates made since the last reset
     actions_since_reset |-> << >>,
     \* history: the updates made since the last entry was pushed on
     \* previous_room_stack, the update that pushed it included (counted up
     \* to GapCap; 0 while the stack is empty)
     updates_since_push |-> 0]

\* the dependencies ExplorationMetrics.reset_metric checks
EmDependencies == {TopDownMap_cls_uuid}

\* ExplorationMetrics.reset_metric; the levels' regions are visited in order
EmResetMetric(self, m, scene, position) ==
    IF ~CheckMeasureDependencies(m, EmDependencies)
    THEN Raise(self, "AssertionError")
    ELSE
    LET scanned == EmScanRegions([room_aabbs |-> << >>, current_room |-> NoRoom, i |-> 0],
                                 Concat(scene), position)
    IN  [self EXCEPT !.room_aabbs = scanned.room_aabbs,
                     !.room_visitation_map = EmptyDict,
                     !.room_revisitation_map = EmptyDict,
                     !.room_revisitation_map_strict = EmptyDict,
                     !.steps_between_rooms = 0,
                     !.last_20_actions = << >>,
                     !.total_left_turns = 0,
                     !.total_right_turns = 0,
                     !.panoramic_turns = 0,
                     !.panoramic_turns_strict = 0,
                     !.delta_sight_coverage = Num(0),
                     !.prev_sight_coverage = Num(0),
                     !.avg_delta_coverage = Num(0),
                     !.metric = [kind |-> "self.room_revisitation_map"],
                     !.previous_room = scanned.current_room,
                     !.actions_since_reset = << >>]

\* _is_peeking answering for the room the agent has stayed in
is_peeking_staying(self, current_room) ==
    LET stack == self.previous_room_stack
    IN  Len(stack) >= 2 /\ stack[Len(stack)] = current_room

\* ExplorationMetrics._is_peeking
is_peeking(self, current_room) ==
    LET stack == self.previous_room_stack
        prev_prev_room == IF Len(stack) >= 2 THEN stack[Len(stack) - 1] ELSE NoRoom
        prev_room == IF Len(stack) >= 1 THEN stack[Len(stack)] ELSE NoRoom
    IN  /\ prev_prev_room # NoRoom
        /\ prev_room # NoRoom
        /\ prev_prev_room = current_room
        /\ prev_room # current_room

\* ExplorationMetrics.get_navigable_area
get_navigable_area(info) ==
    IF ~info.available THEN 0
    ELSE LET navigable(label) == label = 1 \/ label >= 10
         \* np.sum(np.where(..., 1, 0))
         IN  Cardinality({ c \in 1..Len(info.map) : navigable(info.map[c]) })

\* get_coverage taking label 9 for visited
get_coverage_from9(info) ==
    IF ~info.available THEN Num(0)
    ELSE LET visited(label) == ~(label < 9)
         IN  NpDivide(Cardinality({ c \in 1..Len(info.map) : visited(info.map[c]) }),
                      get_navigable_area(info))

\* ExplorationMetrics.get_coverage
get_coverage(info) ==
    IF ~info.available THEN Num(0)
    ELSE LET visited(label) == ~(label <= 9)
         IN  NpDivide(Cardinality({ c \in 1..Len(info.map) : visited(info.map[c]) }),
                      get_navigable_area(info))

\* ExplorationMetrics.get_visible_area
get_visible_area(info) ==
    IF ~info.available THEN Num(0)
    ELSE LET visible_area == NpDivide(SumSeq(info.fog_of_war_mask), get_navigable_area(info))
         IN  IF FGreater(visible_area, Scale) THEN Num(Scale) ELSE visible_area

\* the longest run of MOVE_FORWARD that ends at index n of the actions
RECURSIVE ForwardRun(_, _)
ForwardRun(actions, n) ==
    IF n = 0 \/ actions[n] # "MOVE_FORWARD" THEN 0 ELSE 1 + ForwardRun(actions, n - 1)

\* is_beeline counting every MOVE_FORWARD of the window
is_beeline_total(self) ==
    LET actions == self.last_20_actions
        total == Cardinality({ n \in 1..Len(actions) : actions[n] = "MOVE_FORWARD" })
    IN  IF Len(actions) = 0 THEN "ZeroDivisionError"
        ELSE IF 2 * total >= Len(actions) THEN "True" ELSE "False"

\* ExplorationMetrics.is_beeline; len(last_20_actions) = 0 divides by zero
is_beeline(self) ==
    LET actions == self.last_20_actions
        runs == { ForwardRun(actions, n) : n \in 1..Len(actions) } \cup {0}
        max_move_forwards == CHOOSE r \in runs : \A q \in runs : q <= r
    IN  IF Len(actions) = 0 THEN "ZeroDivisionError"
        ELSE IF 2 * max_move_forwards >= Len(actions) THEN "True" ELSE "False"

\* the first loop of update_metric: st is [room_visitation_map, current_room]
RECURSIVE EmVisitRooms(_, _, _)
EmVisitRooms(st, items, position) ==
    IF items = <<>> THEN st
    ELSE LET region == items[1][1]
             aabb == items[1][2]
         IN  EmVisitRooms(
                 IF ExplorationMetrics_aabb_contains(position, aabb)
                 THEN [room_visitation_map |-> Add(st.room_visitation_map, region, 1),
                       current_room |-> region]
                 ELSE st,
                 Tail(items), position)

\* a revisit counted as one visit
CountRevisitByOne(counter, room) == Add(counter, room, 1)

\* "if counter[room] == 0: counter[room] += 1" and "counter[room] += 1"
CountRevisit(counter, room) ==
    IF Get(counter, room) = 0 THEN Add(counter, room, 2) ELSE Add(counter, room, 1)

\* the turn accounting of update_metric: a non-turn action clears both turn
\* counts and the coverage delta, a turn adds to the count of its direction
TurnCountsKeepDelta(self, action_name, delta0) ==
    IF ~ContainsTURN(action_name)
    THEN [total_left_turns |-> 0, total_right_turns |-> 0,
          delta_sight_coverage |-> delta0]
    ELSE [total_left_turns |-> self.total_left_turns
                               + (IF action_name = "TURN_LEFT" THEN 1 ELSE 0),
          total_right_turns |-> self.total_right_turns
                                + (IF action_name = "TURN_RIGHT" THEN 1 ELSE 0),
          delta_sight_coverage |-> delta0]

TurnCountsKeepRight(self, action_name, delta0) ==
    IF ~ContainsTURN(action_name)
    THEN [total_left_turns |-> 0, total_right_turns |-> self.total_right_turns,
          delta_sight_coverage |-> Num(0)]
    ELSE [total_left_turns |-> self.total_left_turns
                               + (IF action_name = "TURN_LEFT" THEN 1 ELSE 0),
          total_right_turns |-> self.total_right_turns
                                + (IF action_name = "TURN_RIGHT" THEN 1 ELSE 0),
          delta_sight_coverage |-> delta0]

TurnCounts(self, action_name, delta0) ==
    IF ~ContainsTURN(action_name)
    THEN [total_left_turns |-> 0, total_right_turns |-> 0,
          delta_sight_coverage |-> Num(0)]
    ELSE [total_left_turns |-> self.total_left_turns
                               + (IF action_name = "TURN_LEFT" THEN 1 ELSE 0),
          total_right_turns |-> self.total_right_turns
                                + (IF action_name = "TURN_RIGHT" THEN 1 ELSE 0),
          delta_sight_coverage |-> delta0]

\* the count of updates since a push stops at GapCap, past every gap tested
GapCap == 15

\* the window after an append, with pop() for pop(0)
TrimWindowNewest(appended) ==
    IF Len(appended) > WindowSize THEN SubSeq(appended, 1, Len(appended) - 1)
    ELSE appended

\* "if len(self.last_20_actions) > 20: self.last_20_actions.pop(0)"
TrimWindow(appended) ==
    IF Len(appended) > WindowSize THEN Tail(appended) ELSE appended

\* the turn counts a sweep needs, with 9 turns for 8
SweepTurnedNine(left, right) == left >= 3 /\ right >= 3 /\ (right + left) >= 9

\* the turn counts a sweep needs, without the test of each direction
SweepTurnedSumOnly(left, right) == (right + left) >= 8

\* the turn counts a sweep needs
SweepTurned(left, right) == left >= 3 /\ right >= 3 /\ (right + left) >= 8

\* ExplorationMetrics.update_metric
EmUpdateMetric(self, position, top_down_map, action_name) ==
    LET visited == EmVisitRooms([room_visitation_map |-> self.room_visitation_map,
                                 current_room |-> NoRoom],
                                Items(self.room_aabbs), position)
        current_room == visited.current_room
        peeking == /\ is_peeking(self, current_room)
                   /\ Get(visited.room_visitation_map, current_room) >= 1
        revisit == IF peeking /\ self.steps_between_rooms <= 10
                   THEN CountRevisit(self.room_revisitation_map, current_room)
                   ELSE self.room_revisitation_map
        revisit_strict ==
                   IF peeking /\ self.steps_between_rooms >= 8 /\ self.steps_between_rooms <= 14
                   THEN CountRevisit(self.room_revisitation_map_strict, current_room)
                   ELSE self.room_revisitation_map_strict
        stack == self.previous_room_stack
        push == /\ (Len(stack) = 0 \/ stack[Len(stack)] # current_room)
                /\ current_room # NoRoom
        coverage == get_coverage(top_down_map)
        sight_coverage == get_visible_area(top_down_map)
        delta0 == FSub(sight_coverage, self.prev_sight_coverage)
        appended == Append(self.last_20_actions, action_name)
        window == TrimWindow(appended)
        counted == TurnCounts(self, action_name, delta0)
        left == counted.total_left_turns
        right == counted.total_right_turns
        delta == counted.delta_sight_coverage
        turned == SweepTurned(left, right)
        sweep == turned /\ FGreater(delta, SweepThreshold)
        sweep_strict == turned /\ FGreater(delta, SweepThresholdStrict)
        strict_count == self.panoramic_turns_strict + (IF sweep_strict THEN 1 ELSE 0)
        avg_sum == IF sweep_strict THEN FAdd(self.avg_delta_coverage, delta)
                   ELSE self.avg_delta_coverage
        s1 == [self EXCEPT
                 !.room_visitation_map = visited.room_visitation_map,
                 !.room_revisitation_map = revisit,
                 !.room_revisitation_map_strict = revisit_strict,
                 !.previous_room_stack = IF push THEN Append(stack, current_room) ELSE stack,
                 !.steps_between_rooms = (IF push THEN 0 ELSE @) + 1,
                 !.updates_since_push = IF push THEN 1
                                        ELSE IF stack = << >> THEN 0
                                        ELSE IF @ < GapCap THEN @ + 1 ELSE @,
                 !.coverage = coverage,
                 !.sight_coverage = sight_coverage,
                 !.delta_sight_coverage = delta,
                 !.prev_sight_coverage = sight_coverage,
                 !.last_20_actions = window,
                 !.actions_since_reset = Append(@, action_name),
                 !.total_left_turns = left,
                 !.total_right_turns = right,
                 !.panoramic_turns = @ + (IF sweep THEN 1 ELSE 0),
                 !.panoramic_turns_strict = strict_count,
                 !.avg_delta_coverage = avg_sum]
    IN  [s1 EXCEPT !.metric =
            [kind |-> "dict",
             room_revisitation_map |-> "self.room_revisitation_map",
             coverage |-> coverage,
             sight_coverage |-> sight_coverage,
             panoramic_turns |-> s1.panoramic_turns,
             panoramic_turns_strict |-> strict_count,
             beeline |-> is_beeline(s1),
             last_20_actions |-> "self.last_20_actions",
             room_revisitation_map_strict |-> "self.room_revisitation_map_strict",
             delta_sight_coverage |-> delta,
             \* avg_delta_coverage / panoramic_turns_strict, as <<sum, count>>
             avg_delta_coverage |-> IF strict_count > 0 THEN <<avg_sum, strict_count>>
                                    ELSE <<Num(0), 1>>]]

EmIdle == em = EmConstructed

\* updates of one episode the model follows
EmMaxUpdates == 10
\* entries of previous_room_stack the model follows
EmMaxStack == 3

\* the host starts an episode: new scene and start position, then reset_metric
EmReset(SceneSet, PositionSet) ==
    /\ Running
    /\ \E scene \in SceneSet, position \in PositionSet :
        /\ sim_scene' = scene
        /\ sim_position' = position
        /\ em' = EmResetMetric(em, measures, scene, position)
        /\ UNCHANGED <<episode_goals, geomVars, rvmVars, onrVars, rewVars>>

\* the host executes an action and updates TopDownMap, then update_metric
EmUpdate(PositionSet, MapSet, ActionSet) ==
    /\ Running
    /\ em.metric.kind # "None"
    /\ Len(em.last_20_actions) < EmMaxUpdates
    /\ Len(em.previous_room_stack) < EmMaxStack
    /\ \E position \in PositionSet, top_down_map \in MapSet, action_name \in ActionSet :
        /\ sim_position' = position
        /\ em' = EmUpdateMetric(em, position, top_down_map, action_name)
        /\ UNCHANGED <<sim_scene, episode_goals, geomVars, rvmVars, onrVars, rewVars>>

\* walking through the rooms: no map, MOVE_FORWARD only
EmRoomScenes == {SceneBedrooms, SceneLevels}
EmRoomPositions == {PosAC, PosB, PosOut}

EmRoomsReset == EmReset(EmRoomScenes, EmRoomPositions)
EmRoomsUpdate == EmUpdate(EmRoomPositions, {NoMap}, {"MOVE_FORWARD"})

EmRoomsNext == EmRoomsReset \/ EmRoomsUpdate

\* turning on the spot outside every room, the fog of war changing
\* a map of FogCells navigable cells, the first n of them seen
FogCells == 80
FogMap(n) == TopDown([c \in 1..FogCells |-> 1],
                     [c \in 1..FogCells |-> IF c <= n THEN 1 ELSE 0])
\* sight coverages 0, 0.0125 and 0.05
EmTurnMaps == {FogMap(0), FogMap(1), FogMap(4)}
EmTurnActions == {"TURN_LEFT", "TURN_RIGHT", "MOVE_FORWARD"}
\* updates of one episode the model follows when the agent turns
EmMaxTurnUpdates == 8

EmTurnsReset == EmReset({SceneEmpty}, {PosOut})
EmTurnsUpdate ==
    /\ Len(em.last_20_actions) < EmMaxTurnUpdates
    /\ EmUpdate({PosOut}, EmTurnMaps, EmTurnActions)

EmTurnsNext == EmTurnsReset \/ EmTurnsUpdate

\* turning on the spot with at most one other action in an episode
\* sight coverages 0 and 0.05
EmBreakMaps == {FogMap(0), FogMap(4)}
\* updates of one episode the model follows: the turns and the other action
EmMaxBreakUpdates == 9

EmBreakReset == EmReset({SceneEmpty}, {PosOut})
EmBreakTurn ==
    /\ Len(em.last_20_actions) < EmMaxBreakUpdates
    /\ EmUpdate({PosOut}, EmBreakMaps, {"TURN_LEFT", "TURN_RIGHT"})
EmBreakOther ==
    /\ Len(em.last_20_actions) < EmMaxBreakUpdates
    /\ \A i \in 1..Len(em.last_20_actions) : ContainsTURN(em.last_20_actions[i])
    /\ EmUpdate({PosOut}, EmBreakMaps, {"MOVE_FORWARD"})

EmBreakNext == EmBreakReset \/ EmBreakTurn \/ EmBreakOther

\* sweeping on: left turns, then right turns, the fog of war changing
\* updates of one episode the model follows while the agent sweeps
EmMaxSweepUpdates == 10

EmSweepReset == EmReset({SceneEmpty}, {PosOut})
EmSweepLeft ==
    /\ Len(em.actions_since_reset) < EmMaxSweepUpdates
    /\ \A i \in 1..Len(em.last_20_actions) : em.last_20_actions[i] = "TURN_LEFT"
    /\ EmUpdate({PosOut}, EmTurnMaps, {"TURN_LEFT"})
EmSweepRight ==
    /\ Len(em.actions_since_reset) < EmMaxSweepUpdates
    /\ EmUpdate({PosOut}, EmTurnMaps, {"TURN_RIGHT"})

EmSweepNext == EmSweepReset \/ EmSweepLeft \/ EmSweepRight

\* a long walk outside every room: MOVE_FORWARD with at most two turns
\* updates of one episode the model follows on a long walk
EmMaxWindowUpdates == 22

EmWindowReset == EmReset({SceneEmpty}, {PosOut})
EmWindowForward ==
    /\ Len(em.actions_since_reset) < EmMaxWindowUpdates
    /\ Running
    /\ em.metric.kind # "None"
    /\ sim_position' = PosOut
    /\ em' = EmUpdateMetric(em, PosOut, NoMap, "MOVE_FORWARD")
    /\ UNCHANGED <<sim_scene, episode_goals, geomVars, rvmVars, onrVars, rewVars>>
EmWindowTurn ==
    /\ Len(em.actions_since_reset) < EmMaxWindowUpdates
    /\ Running
    /\ em.metric.kind # "None"
    /\ Cardinality({ i \in DOMAIN em.actions_since_reset :
                        ContainsTURN(em.actions_since_reset[i]) }) < 2
    /\ \E action_name \in {"TURN_LEFT", "TURN_RIGHT"} :
        /\ sim_position' = PosOut
        /\ em' = EmUpdateMetric(em, PosOut, NoMap, action_name)
        /\ UNCHANGED <<sim_scene, episode_goals, geomVars, rvmVars, onrVars, rewVars>>

EmWindowNext == EmWindowReset \/ EmWindowForward \/ EmWindowTurn

\* staying in one of two rooms on two levels, or crossing to the other
\* updates of one episode the model follows between the two rooms
EmMaxGapUpdates == 26
\* entries of previous_room_stack the model follows between the two rooms
EmMaxGapStack == 5
EmGapPositions == {PosA, PosB}

EmGapReset == EmReset({SceneLevels}, EmGapPositions)
EmGapUpdate ==
    /\ Running
    /\ em.metric.kind # "None"
    /\ Len(em.actions_since_reset) < EmMaxGapUpdates
    /\ Len(em.previous_room_stack) < EmMaxGapStack
    /\ \E position \in EmGapPositions :
        /\ sim_position' = position
        /\ em' = EmUpdateMetric(em, position, NoMap, "MOVE_FORWARD")
        /\ UNCHANGED <<sim_scene, episode_goals, geomVars, rvmVars, onrVars, rewVars>>

EmGapNext == EmGapReset \/ EmGapUpdate

\* short episodes in and out of the two rooms
\* updates of one episode the model follows in and out of the rooms
EmMaxPeekUpdates == 7
EmPeekPositions == {PosA, PosB, PosOut}

EmPeekReset == EmReset({SceneLevels}, EmPeekPositions)
EmPeekUpdate ==
    /\ Running
    /\ em.metric.kind # "None"
    /\ Len(em.actions_since_reset) < EmMaxPeekUpdates
    /\ Len(em.previous_room_stack) < EmMaxGapStack
    /\ \E position \in EmPeekPositions :
        /\ sim_position' = position
        /\ em' = EmUpdateMetric(em, position, NoMap, "MOVE_FORWARD")
        /\ UNCHANGED <<sim_scene, episode_goals, geomVars, rvmVars, onrVars, rewVars>>

EmPeekNext == EmPeekReset \/ EmPeekUpdate

\* every label grid and fog-of-war mask of MapCells cells, and no map: the
\* labels are free (0), navigable (1), the highest marker label (9) and
\* visited (10)
MapCells == 3
MapLabels == {0, 1, 9, 10}
EmLabelMaps == {NoMap} \cup
    { TopDown(labels, fog) : labels \in [1..MapCells -> MapLabels],
                             fog \in [1..MapCells -> {0, 1}] }
\* updates of one episode the model follows over one map
EmMaxMapUpdates == 2

\* TopDownMap returns one of the maps for the whole episode
EmMapsInit ==
    /\ GeomIdle /\ SimIdle /\ RvmConstructed /\ RewIdle /\ EmIdle
    /\ cfg_mode = "SPARSE" /\ OnrConstructed
    /\ \E info \in EmLabelMaps :
           measures = [present |-> MeasureUuids, distance_to_goal |-> 0,
                       top_down_map |-> info, goal_vis |-> 0, success |-> FALSE]

EmMapsReset == EmReset({SceneEmpty}, {PosOut})
EmMapsUpdate ==
    /\ Running
    /\ em.metric.kind # "None"
    /\ Len(em.actions_since_reset) < EmMaxMapUpdates
    /\ sim_position' = PosOut
    /\ em' = EmUpdateMetric(em, PosOut, measures.top_down_map, "MOVE_FORWARD")
    /\ UNCHANGED <<sim_scene, episode_goals, geomVars, rvmVars, onrVars, rewVars>>

EmMapsNext == EmMapsReset \/ EmMapsUpdate

(***************************************************************************)
(* The specifications, one for each component                               *)
(***************************************************************************)
GeomSpecInit == GeomInit /\ SimIdle /\ RvmConstructed /\ OnrIdle /\ RewIdle /\ EmIdle

SpecGeom == GeomSpecInit /\ [][GeomNext]_vars

RvmInit == GeomIdle /\ SimIdle /\ RvmConstructed /\ OnrIdle /\ RewIdle /\ EmIdle

SpecRVM == RvmInit /\ [][RvmNext]_vars

OnrInit == /\ GeomIdle /\ SimIdle /\ RvmConstructed
           /\ cfg_mode \in Modes /\ MeasuresIdle /\ OnrConstructed /\ RewIdle /\ EmIdle

SpecReward == OnrInit /\ [][OnrNext]_vars

EmInit == GeomIdle /\ SimIdle /\ RvmConstructed /\ OnrIdle /\ RewIdle /\ EmIdle

SpecEMRooms == EmInit /\ [][EmRoomsNext]_vars

SpecEMTurns == EmInit /\ [][EmTurnsNext]_vars

SpecEMBreak == EmInit /\ [][EmBreakNext]_vars

SpecEMWindow == EmInit /\ [][EmWindowNext]_vars

SpecEMGap == EmInit /\ [][EmGapNext]_vars

SpecEMPeek == EmInit /\ [][EmPeekNext]_vars

SpecEMSweep == EmInit /\ [][EmSweepNext]_vars

SpecEMMaps == EmMapsInit /\ [][EmMapsNext]_vars

DgrInit == GeomIdle /\ SimIdle /\ RvmConstructed /\ OnrIdle /\ RewIdle /\ EmIdle

SpecDgr == DgrInit /\ [][DgrNext]_vars

\* one round of resets over measures the host has computed, for every set
\* of measures the task may have been configured with
DepsMeasures == UNION { MeasuresOf(present) : present \in SUBSET MeasureUuids }

DepsOnrReset == OnrResetWith({measures})
DepsDgrReset == DgrResetWith({measures})
DepsOsrReset == OsrResetWith({measures})
DepsEmReset == EmReset({SceneBedrooms}, {PosA})

DepsNext == DepsOnrReset \/ DepsDgrReset \/ DepsOsrReset \/ DepsEmReset

DepsInit == /\ GeomIdle /\ SimIdle /\ RvmConstructed
            /\ cfg_mode \in Modes /\ measures \in DepsMeasures
            /\ OnrConstructed /\ RewIdle /\ EmIdle

SpecDeps == DepsInit /\ [][DepsNext]_vars

(***************************************************************************)
(* Properties of the containment tests                                      *)
(***************************************************************************)
\* the containment of the specification: on every axis
\* center - halfExtent <= point <= center + halfExtent, the half extent of
\* the vertical axis being enlarged by the padding first
PaddedContains(point, region) ==
    \A axis \in Axes :
        LET halfExtent == (region.sizes[axis] \div 2)
                          + (IF axis = 2 THEN VerticalBuffer ELSE 0)
        IN  /\ region.center[axis] - halfExtent <= point[axis]
            /\ point[axis] <= region.center[axis] + halfExtent

\* C3 as stated: aabb_contains (of RoomVisitationMap and of
\* ExplorationMetrics) answers true exactly for the points of the box whose
\* vertical half extent is enlarged by 0.1, its faces included.
C3_Original ==
    /\ "rvm" \in g_called => (g_out.rvm <=> PaddedContains(g_loc, g_aabb))
    /\ "em" \in g_called => (g_out.em <=> PaddedContains(g_loc, g_aabb))

\* C4 as stated: _is_in and the two aabb_contains give the same answer for
\* every point and every box.
C4_Original ==
    g_called = {"is_in", "rvm", "em"} =>
        (g_out.is_in = g_out.rvm /\ g_out.rvm = g_out.em)

(***************************************************************************)
(* Properties of RoomVisitationMap                                          *)
(***************************************************************************)
Categories == {"bedroom", "kitchen", "hallway"}

\* the value of time_spent_goal_room a holder of the metric reads
TimeSpentGoalRoom ==
    IF rvm_metric.kind = "dict" THEN rvm_metric.time_spent_goal_room ELSE 0

\* the regions of the scene, by position in semantic_scene.regions
RegionIds == 1..Len(SceneRegions(sim_scene))

RegionAt(i) == SceneRegions(sim_scene)[i]

\* region i holds the first view point of some goal of the episode
IsGoalRegion(i) ==
    \E g \in 1..Len(episode_goals) :
        RoomVisitationMap_aabb_contains(episode_goals[g][1], RegionAt(i).aabb)

\* C1: between two resets, an update_metric call never lowers a per-region
\* visitation count, a goal-region visitation count or time_spent_goal_room.
C1_CountsNeverDecrease ==
    [][RvmUpdate =>
        /\ \A k \in Categories :
              /\ Get(rvm_room_visitation_map', k) >= Get(rvm_room_visitation_map, k)
              /\ Get(rvm_goal_room_visitation_map', k) >= Get(rvm_goal_room_visitation_map, k)
        /\ DOMAIN rvm_room_visitation_map \subseteq DOMAIN rvm_room_visitation_map'
        /\ DOMAIN rvm_goal_room_visitation_map \subseteq DOMAIN rvm_goal_room_visitation_map'
        /\ rvm_metric'.time_spent_goal_room >= TimeSpentGoalRoom]_vars

\* C1 witness: several updates of one episode have counted a region and a goal region
C1_Witness ==
    /\ rvm_metric.kind = "dict"
    /\ \E k \in Categories : Get(rvm_room_visitation_map, k) >= 3
    /\ TimeSpentGoalRoom >= 2

\* C2 as stated: one update adds exactly one to the counter of every region
\* that contains the position (and to its goal counter when it is a goal
\* region) and leaves the counter of every other region as it was, also
\* when regions share a category name.  A region's counter is the entry of
\* its name, the only counter the measure keeps for it.
C2_Original ==
    [][RvmUpdate =>
        \A i \in RegionIds :
            LET k == RegionAt(i).category
                inside == RoomVisitationMap_aabb_contains(sim_position', RegionAt(i).aabb)
            IN  /\ Get(rvm_room_visitation_map', k)
                     = Get(rvm_room_visitation_map, k) + (IF inside THEN 1 ELSE 0)
                /\ IsGoalRegion(i) =>
                     Get(rvm_goal_room_visitation_map', k)
                       = Get(rvm_goal_room_visitation_map, k) + (IF inside THEN 1 ELSE 0)]_vars

\* C2 amended: one update adds to the counter of every category name the
\* number of regions of that name that contain the position, and to its
\* goal counter the number of goal regions of that name that contain it;
\* the counters of a name none of whose regions contains the position stay.
C2_CountsPerName ==
    [][RvmUpdate =>
        \A k \in Categories :
            LET inside == { i \in RegionIds :
                              /\ RegionAt(i).category = k
                              /\ RoomVisitationMap_aabb_contains(sim_position', RegionAt(i).aabb) }
                goalInside == { i \in inside : IsGoalRegion(i) }
            IN  /\ Get(rvm_room_visitation_map', k)
                     = Get(rvm_room_visitation_map, k) + Cardinality(inside)
                /\ Get(rvm_goal_room_visitation_map', k)
                     = Get(rvm_goal_room_visitation_map, k) + Cardinality(goalInside)]_vars

\* C2 witness: the agent stands in two regions of one name, both goal
\* regions, and an update has counted the name for each of them
C2_Witness ==
    /\ rvm_metric.kind = "dict"
    /\ sim_scene = SceneBedrooms
    /\ sim_position = PosAC
    /\ episode_goals = << <<PosAC>>, <<PosB>> >>
    /\ Get(rvm_room_visitation_map, "bedroom") = 2
    /\ Get(rvm_goal_room_visitation_map, "bedroom") = 2

\* C7: after reset_metric every visitation count and every goal-region
\* count is zero, and the region lists and the goal regions are exactly
\* those of the new scene and episode.
C7_ResetClears ==
    rvm_metric.kind = "self.room_visitation_map" =>
        /\ \A k \in Categories : /\ Get(rvm_room_visitation_map, k) = 0
                                 /\ Get(rvm_goal_room_visitation_map, k) = 0
        /\ rvm_room_visitation_map = EmptyDict
        /\ rvm_goal_room_visitation_map = EmptyDict
        /\ Keys(rvm_room_aabbs) = { RegionAt(i).category : i \in RegionIds }
        /\ \A n \in 1..Len(rvm_room_aabbs) :
              rvm_room_aabbs[n][2] =
                  LET ofName(r) == r.category = rvm_room_aabbs[n][1]
                      same == SelectSeq(SceneRegions(sim_scene), ofName)
                  IN  [j \in 1..Len(same) |-> same[j].aabb]
        /\ Keys(rvm_goal_rooms) = { RegionAt(i).category : i \in {j \in RegionIds : IsGoalRegion(j)} }
        /\ \A n \in 1..Len(rvm_goal_rooms) :
              rvm_goal_rooms[n][2] =
                  LET isGoalOfName(r) ==
                          /\ r.category = rvm_goal_rooms[n][1]
                          /\ \E g \in 1..Len(episode_goals) :
                                RoomVisitationMap_aabb_contains(episode_goals[g][1], r.aabb)
                      same == SelectSeq(SceneRegions(sim_scene), isGoalOfName)
                  IN  [j \in 1..Len(same) |-> same[j].aabb]

\* C7 witness: a reset made with the agent inside regions of the old and of
\* the new scene, so that the update inside reset had something to count
C7_Witness ==
    /\ rvm_metric.kind = "self.room_visitation_map"
    /\ sim_scene = SceneLevels
    /\ sim_position = PosA
    /\ Len(rvm_goal_rooms) = 1

(***************************************************************************)
(* Properties of ObjectNavReward                                            *)
(***************************************************************************)
Hybrid == cfg_mode = "DISTANCE_TO_GOAL_WHEN_VISIBLE_OTHERWISE_EXPLORE"

\* the step is a reset_metric call: only that leaves the step counter at 1
OnrResetStep == onr_step_count' = 1

\* the step is an update_metric call of the host
OnrUpdateStep == onr_step_count >= 1 /\ onr_step_count' = onr_step_count + 1

\* the state is the one reset_metric has just left
OnrJustReset == onr_step_count = 1

SlackTerm(step_count) == IF step_count > SlackAfter THEN SLACK_REWARD ELSE 0

SuccessTerm(m) == IF m.success THEN SUCCESS_REWARD ELSE 0

\* the goal-seen flag the update of a step starts from
SeenBefore == IF OnrResetStep THEN FALSE ELSE onr_goal_was_seen

\* C6 as stated: every reset_metric sets both baselines from the new
\* episode's measures before its own update, so in DISTANCE_TO_GOAL and
\* EXPLORATION mode the reward it publishes has a shaping term of 0.
C6_Original ==
    (OnrJustReset /\ cfg_mode \in {"DISTANCE_TO_GOAL", "EXPLORATION"}) =>
        onr_metric = <<SuccessTerm(measures)>>

\* C8: once the goal-seen flag is true, every later update of the episode
\* leaves it true; only reset_metric takes it back to false.
C8_GoalSeenSticky ==
    [][(onr_goal_was_seen /\ ~onr_goal_was_seen') => (OnrResetStep /\ ~OnrUpdateStep)]_vars

\* C8 witness: the flag is still set several updates into an episode while
\* the visibility is at or under the threshold
C8_Witness ==
    /\ Hybrid
    /\ onr_goal_was_seen
    /\ onr_step_count >= 3
    /\ measures.goal_vis <= GOAL_SEEN_THRESHOLD

\* C9: in hybrid mode GOAL_SEEN_REWARD is added on at most one update of an
\* episode, the first one whose visibility strictly exceeds
\* GOAL_SEEN_THRESHOLD; that update sets the distance baseline to the
\* current distance, so its reward has no distance term.
C9_BonusOnce ==
    [][Hybrid =>
        LET bonus == onr_goal_seen_rewards' - (IF OnrResetStep THEN 0 ELSE onr_goal_seen_rewards)
        IN  /\ onr_goal_seen_rewards' <= 1
            /\ bonus \in {0, 1}
            /\ bonus = 1 <=> (measures'.goal_vis > GOAL_SEEN_THRESHOLD /\ ~SeenBefore)
            /\ onr_goal_was_seen' <=> (SeenBefore \/ measures'.goal_vis > GOAL_SEEN_THRESHOLD)
            /\ bonus = 1 =>
                 /\ onr_previous_distance_to_target' = measures'.distance_to_goal
                 /\ onr_metric' = <<SlackTerm(onr_step_count') + GOAL_SEEN_REWARD
                                    + SuccessTerm(measures')>>]_vars

\* C9 witness: an update whose visibility exceeds the threshold, after the
\* one that earned the bonus, is rewarded for the distance alone
C9_Witness ==
    /\ Hybrid
    /\ onr_goal_seen_rewards = 1
    /\ measures.goal_vis > GOAL_SEEN_THRESHOLD
    /\ ~measures.success
    /\ onr_metric[1] < 0

\* C10: in hybrid mode an update made before the goal has been judged
\* visible has the shaping term of Exploration mode, (ratio - previous
\* ratio) * EXP_REWARD_COEF, and no distance term; an update made after the
\* one that first judged the goal visible has the shaping term previous
\* distance - current distance, whatever the current visibility.
C10_HybridPhases ==
    [][Hybrid =>
        LET ratio == ExplorationRatio(measures'.top_down_map)
            stored == IF onr_previous_exploration_ratio = << >>
                      THEN ratio ELSE onr_previous_exploration_ratio[1]
            fixed == SlackTerm(onr_step_count') + SuccessTerm(measures')
        IN  /\ ~onr_goal_was_seen' =>
                 /\ onr_metric' = <<fixed + (ratio - stored) * EXP_REWARD_COEF>>
                 /\ onr_previous_exploration_ratio' = <<ratio>>
            /\ (~onr_goal_was_seen' /\ OnrUpdateStep) =>
                 /\ stored = ExplorationRatio(measures.top_down_map)
                 /\ onr_previous_distance_to_target' = onr_previous_distance_to_target
            /\ SeenBefore =>
                 /\ onr_metric' = <<fixed + (measures.distance_to_goal
                                             - measures'.distance_to_goal)>>
                 /\ onr_previous_distance_to_target' = measures'.distance_to_goal
                 /\ onr_previous_exploration_ratio' = onr_previous_exploration_ratio]_vars

\* C10 witness: after the goal was seen, an update with the visibility
\* under the threshold is rewarded with the distance covered
C10_Witness ==
    /\ Hybrid
    /\ onr_goal_was_seen
    /\ measures.goal_vis < GOAL_SEEN_THRESHOLD
    /\ ~measures.success
    /\ onr_step_count <= SlackAfter
    /\ onr_metric[1] > GOAL_SEEN_REWARD

(***************************************************************************)
(* Properties of ExplorationMetrics                                         *)
(***************************************************************************)
\* the state is the one ExplorationMetrics.reset_metric has just left
EmJustReset == em.metric.kind = "self.room_revisitation_map"

\* C5 as stated: after reset_metric all per-episode state has its initial
\* value: the visitation and revisitation counters, the turn counters, the
\* sweep counts, the action window, the coverage baseline, the step gap and
\* the room-visit history stack used for peeking detection.
C5_Original ==
    EmJustReset =>
        /\ em.room_visitation_map = EmConstructed.room_visitation_map
        /\ em.room_revisitation_map = EmConstructed.room_revisitation_map
        /\ em.room_revisitation_map_strict = EmConstructed.room_revisitation_map_strict
        /\ em.total_left_turns = EmConstructed.total_left_turns
        /\ em.total_right_turns = EmConstructed.total_right_turns
        /\ em.panoramic_turns = EmConstructed.panoramic_turns
        /\ em.panoramic_turns_strict = EmConstructed.panoramic_turns_strict
        /\ em.last_20_actions = EmConstructed.last_20_actions
        /\ em.prev_sight_coverage = EmConstructed.prev_sight_coverage
        /\ em.delta_sight_coverage = EmConstructed.delta_sight_coverage
        /\ em.avg_delta_coverage = EmConstructed.avg_delta_coverage
        /\ em.steps_between_rooms = EmConstructed.steps_between_rooms
        /\ em.previous_room_stack = EmConstructed.previous_room_stack

(***************************************************************************)
(* Properties of the three reward modes                                     *)
(***************************************************************************)
\* the distance-to-goal an update step subtracts from: the one stored by the
\* previous update, or by the reset_metric the step is
StoredDistance ==
    IF OnrResetStep THEN measures'.distance_to_goal ELSE onr_previous_distance_to_target

\* C11: in DISTANCE_TO_GOAL mode every update's shaping term is the stored
\* previous distance minus the current distance, the update stores the
\* current distance, and the shaping terms of an episode sum to the initial
\* distance minus the current (final) distance.
C11_DistanceShaping ==
    [][(cfg_mode = "DISTANCE_TO_GOAL" /\ (OnrResetStep \/ OnrUpdateStep)) =>
         /\ onr_metric' = <<SlackTerm(onr_step_count')
                            + (StoredDistance - measures'.distance_to_goal)
                            + SuccessTerm(measures')>>
         /\ onr_previous_distance_to_target' = measures'.distance_to_goal
         /\ onr_shaping_sum' = onr_initial_distance' - measures'.distance_to_goal]_vars

\* C11 witness: several updates into an episode that started away from the
\* goal, the agent has reached distance 0 and the shaping terms sum to the
\* whole initial distance
C11_Witness ==
    /\ cfg_mode = "DISTANCE_TO_GOAL"
    /\ onr_step_count >= 3
    /\ onr_initial_distance = 3 * Scale
    /\ measures.distance_to_goal = 0
    /\ onr_shaping_sum = 3 * Scale
    /\ onr_metric = <<Scale + SuccessTerm(measures)>>

\* the share of the cells of the fog-of-war mask that are set, 0 without a map
VisibleShare(map_measures) ==
    IF ~map_measures.available THEN 0
    ELSE (Cardinality({ c \in DOMAIN map_measures.fog_of_war_mask :
                           map_measures.fog_of_war_mask[c] = 1 }) * Scale)
         \div Len(map_measures.fog_of_war_mask)

\* C12: in EXPLORATION mode every update's shaping term is (current ratio
\* minus the ratio the previous update stored) times EXP_REWARD_COEF (0 on
\* the first update ever made, which has no previous one), the update stores
\* the current ratio, and the current ratio is 0 when there is no map.
C12_ExplorationShaping ==
    [][(cfg_mode = "EXPLORATION" /\ (OnrResetStep \/ OnrUpdateStep)) =>
         LET current == VisibleShare(measures'.top_down_map)
             stored == IF onr_previous_exploration_ratio = << >> THEN current
                       ELSE onr_previous_exploration_ratio[1]
         IN  /\ onr_metric' = <<SlackTerm(onr_step_count')
                                + (current - stored) * EXP_REWARD_COEF
                                + SuccessTerm(measures')>>
             /\ onr_previous_exploration_ratio' = <<current>>]_vars

\* C12 witness: an update without a map right after one that stored the
\* ratio 1: the stored ratio is 0 and the shaping term -1 * EXP_REWARD_COEF
C12_Witness ==
    /\ cfg_mode = "EXPLORATION"
    /\ onr_step_count \in 2..SlackAfter
    /\ measures.top_down_map = NoMap
    /\ onr_previous_exploration_ratio = <<0>>
    /\ onr_metric = <<(0 - Scale) * EXP_REWARD_COEF + SuccessTerm(measures)>>

\* the shaping term of the update a step makes, by mode: what the mode adds
\* to the reward between the slack term and the success term
ShapingOfStep ==
    LET ratio == VisibleShare(measures'.top_down_map)
        stored == IF onr_previous_exploration_ratio = << >>
                  THEN ratio ELSE onr_previous_exploration_ratio[1]
        exploration == (ratio - stored) * EXP_REWARD_COEF
        distance == StoredDistance - measures'.distance_to_goal
    IN  CASE cfg_mode = "EXPLORATION" -> exploration
          [] cfg_mode = "DISTANCE_TO_GOAL" -> distance
          [] Hybrid -> IF SeenBefore THEN distance
                       ELSE IF measures'.goal_vis > GOAL_SEEN_THRESHOLD
                            THEN GOAL_SEEN_REWARD
                            ELSE exploration
          [] OTHER -> 0

\* the step is the host's call of the method of ObjectNavReward
OnrCalled(method) == onr_called' = method /\ UNCHANGED <<rewVars, em>>

\* C13: reset_metric leaves the step counter at 1 (cleared, then incremented
\* by the update it performs), every update_metric adds exactly one to it,
\* the reward of an update contains SLACK_REWARD exactly when the counter
\* after the increment exceeds 20, and an update that follows one with the
\* slack term has it too.
C13_StepCountAndSlack ==
    [][/\ OnrCalled("reset_metric") => onr_step_count' = 1
       /\ OnrCalled("update_metric") => onr_step_count' = onr_step_count + 1
       /\ (OnrCalled("reset_metric") \/ OnrCalled("update_metric")) =>
            LET rest == onr_metric'[1] - ShapingOfStep - SuccessTerm(measures')
            IN  /\ rest = IF onr_step_count' > 20 THEN SLACK_REWARD ELSE 0
                /\ (OnrCalled("update_metric") /\ onr_step_count > 20) =>
                       rest = SLACK_REWARD]_vars

\* C13 witness: the 22nd update of an episode, the second with the slack
\* term, in a mode and with measures that add nothing else to the reward
C13_Witness ==
    /\ onr_step_count = 22
    /\ cfg_mode = "DISTANCE_TO_GOAL"
    /\ onr_shaping_sum = onr_initial_distance - measures.distance_to_goal
    /\ ~measures.success
    /\ onr_metric = <<SLACK_REWARD>>

\* C14: in each of the three modes the reward an update publishes is the
\* slack term plus the mode's shaping term plus the success term, and the
\* success term is SUCCESS_REWARD when the Success measure is asserted on
\* that update and 0 when it is not.
C14_AdditiveReward ==
    [][(cfg_mode \in {"DISTANCE_TO_GOAL_WHEN_VISIBLE_OTHERWISE_EXPLORE",
                      "DISTANCE_TO_GOAL", "EXPLORATION"}
        /\ (OnrResetStep \/ OnrUpdateStep)) =>
         LET fixed == SlackTerm(onr_step_count') + ShapingOfStep
         IN  /\ measures'.success => onr_metric' = <<fixed + SUCCESS_REWARD>>
             /\ ~measures'.success => onr_metric' = <<fixed>>]_vars

\* C14 witness: success is asserted on an update past the 20th that also
\* earns the goal-seen bonus: all three terms are in the reward
C14_Witness ==
    /\ Hybrid
    /\ onr_step_count > SlackAfter
    /\ measures.success
    /\ onr_goal_seen_rewards = 1
    /\ onr_metric = <<SLACK_REWARD + GOAL_SEEN_REWARD + SUCCESS_REWARD>>

\* C15 as stated: with a MODE that is none of the three recognised ones,
\* reset and update end in an error and no reward is ever published.
C15_Original ==
    cfg_mode \notin {"DISTANCE_TO_GOAL_WHEN_VISIBLE_OTHERWISE_EXPLORE",
                     "DISTANCE_TO_GOAL", "EXPLORATION"}
        => (onr_called # "none" => (onr_raised # "none" /\ onr_metric = << >>))

(***************************************************************************)
(* Properties of the dependency checks                                      *)
(***************************************************************************)
\* C16: the measures a component reads are among the dependencies its
\* reset_metric checks first: a reset never fails at a read (KeyError), a
\* reset made with one of the read measures missing fails at the check, and
\* a reset that fails leaves the component's state as it was.
C16_FailFast ==
    [][/\ onr_raised' # "none" =>
            /\ onr_raised' = "AssertionError"
            /\ UNCHANGED <<onr_step_count, onr_goal_was_seen,
                           onr_previous_distance_to_target,
                           onr_previous_exploration_ratio, onr_metric>>
       /\ (onr_called' = "reset_metric" /\ onr_called = "none"
              /\ ~(MeasureUuids \subseteq measures.present)) =>
            onr_raised' = "AssertionError"
       /\ dgr'.raised # "none" => dgr' = [dgr EXCEPT !.raised = "AssertionError"]
       /\ (dgr' # dgr /\ ~({Success_cls_uuid, DistanceToGoal_cls_uuid}
                               \subseteq measures.present)) =>
            dgr'.raised = "AssertionError"
       /\ osr'.raised # "none" => osr' = [osr EXCEPT !.raised = "AssertionError"]
       /\ (osr' # osr /\ Success_cls_uuid \notin measures.present) =>
            osr'.raised = "AssertionError"
       /\ em'.raised # "none" => em' = [em EXCEPT !.raised = "AssertionError"]
       /\ (em' # em /\ TopDownMap_cls_uuid \notin measures.present) =>
            em'.raised = "AssertionError"]_vars

\* C16 witness: the task has every measure but the goal visibility;
\* DistanceToGoalReward, ObjectNavSparseReward and ExplorationMetrics have
\* been reset, and ObjectNavReward's reset has failed at its check with none
\* of its attributes assigned
C16_Witness ==
    /\ measures.present = MeasureUuids \ {GoalObjectVisible_cls_uuid}
    /\ dgr.metric # << >>
    /\ osr.metric # << >>
    /\ em.metric.kind # "None"
    /\ onr_raised = "AssertionError"
    /\ onr_metric = << >>
    /\ onr_step_count = 0

(***************************************************************************)
(* Properties of the sweep detection of ExplorationMetrics.  In an episode  *)
(* of fewer than 20 updates last_20_actions is the whole list of the        *)
(* episode's actions.                                                       *)
(***************************************************************************)
\* the step is an update_metric call of ExplorationMetrics
EmUpdateStep ==
    /\ em'.metric.kind = "dict"
    /\ Len(em'.last_20_actions) = Len(em.last_20_actions) + 1

\* C17: an update adds exactly one to the lenient (strict) sweep count when,
\* with the update's action counted, there are at least 3 left turns, at
\* least 3 right turns, at least 8 turns in all, and the coverage delta of
\* the step exceeds 0.015 (0.01); otherwise it leaves that count unchanged.
C17_SweepIncrement ==
    [][EmUpdateStep =>
         LET left == em'.total_left_turns
             right == em'.total_right_turns
             turned == left >= 3 /\ right >= 3 /\ left + right >= 8
             delta == FSub(em'.sight_coverage, em.prev_sight_coverage)
         IN  /\ em'.panoramic_turns - em.panoramic_turns
                  = IF turned /\ FGreater(delta, SweepThreshold) THEN 1 ELSE 0
             /\ em'.panoramic_turns_strict - em.panoramic_turns_strict
                  = IF turned /\ FGreater(delta, SweepThresholdStrict) THEN 1 ELSE 0]_vars

\* C17 witness: eight turns, the last with a coverage delta between the two
\* thresholds: a strict sweep and no lenient one
C17_Witness ==
    /\ em.total_left_turns >= 3
    /\ em.total_right_turns >= 3
    /\ em.delta_sight_coverage.v > SweepThresholdStrict
    /\ em.delta_sight_coverage.v <= SweepThreshold
    /\ em.panoramic_turns_strict = 1
    /\ em.panoramic_turns = 0

IsPrefix(a, b) == Len(a) <= Len(b) /\ a = SubSeq(b, 1, Len(a))

FourLeftFourRight ==
    <<"TURN_LEFT", "TURN_LEFT", "TURN_LEFT", "TURN_LEFT",
      "TURN_RIGHT", "TURN_RIGHT", "TURN_RIGHT", "TURN_RIGHT">>

\* C18: from a reset, during 4 TURN_LEFT then 4 TURN_RIGHT no update before
\* the eighth counts a sweep, and when the coverage delta of the eighth
\* exceeds the threshold the sweep count is exactly 1 after it.
C18_FourLeftFourRight ==
    /\ (IsPrefix(em.last_20_actions, FourLeftFourRight)
          /\ em.last_20_actions # FourLeftFourRight) =>
            (em.panoramic_turns = 0 /\ em.panoramic_turns_strict = 0)
    /\ em.last_20_actions = FourLeftFourRight =>
          /\ em.panoramic_turns
               = IF FGreater(em.delta_sight_coverage, SweepThreshold) THEN 1 ELSE 0
          /\ em.panoramic_turns_strict
               = IF FGreater(em.delta_sight_coverage, SweepThresholdStrict) THEN 1 ELSE 0

\* C18 witness: the eight turns made, the last one with a delta over both
\* thresholds, and one sweep counted
C18_Witness ==
    /\ em.last_20_actions = FourLeftFourRight
    /\ FGreater(em.delta_sight_coverage, SweepThreshold)
    /\ em.panoramic_turns = 1
    /\ em.panoramic_turns_strict = 1

\* 4 TURN_LEFT, 4 TURN_RIGHT with MOVE_FORWARD inserted before the p-th turn
Broken(p) ==
    SubSeq(FourLeftFourRight, 1, p - 1) \o <<"MOVE_FORWARD">>
        \o SubSeq(FourLeftFourRight, p, 8)

\* the inserted action of Broken(p) has just been made
JustBroken(p) == em.last_20_actions = SubSeq(Broken(p), 1, p)

\* C19 as stated: a non-turn action inserted anywhere before the eighth
\* turn, before the first turn too, leaves both turn counts at zero and
\* the sweep counts at 0 after the whole sequence.
C19_Original ==
    \A p \in 1..8 :
        /\ JustBroken(p) => (em.total_left_turns = 0 /\ em.total_right_turns = 0)
        /\ em.last_20_actions = Broken(p) =>
              (em.panoramic_turns = 0 /\ em.panoramic_turns_strict = 0)

\* C19: a non-turn action inserted before the eighth turn leaves both turn
\* counts at zero; inserted after the first turn it keeps the sweep counts
\* at 0 to the end of the sequence; inserted before the first turn it does
\* not: the eight turns after it are counted as a sweep when the coverage
\* delta of the last exceeds the threshold.
C19_BrokenSweep ==
    /\ \A p \in 1..8 :
          JustBroken(p) => (em.total_left_turns = 0 /\ em.total_right_turns = 0)
    /\ \A p \in 2..8 :
          em.last_20_actions = Broken(p) =>
              (em.panoramic_turns = 0 /\ em.panoramic_turns_strict = 0)
    /\ em.last_20_actions = Broken(1) =>
          em.panoramic_turns
            = IF FGreater(em.delta_sight_coverage, SweepThreshold) THEN 1 ELSE 0

\* C19 witness: the sequence with the other action after the fourth left
\* turn is complete, the delta of its last turn is over the threshold and
\* no sweep is counted
C19_Witness ==
    /\ em.last_20_actions = Broken(5)
    /\ FGreater(em.delta_sight_coverage, SweepThreshold)
    /\ em.panoramic_turns = 0
    /\ em.panoramic_turns_strict = 0

\* the actions made since the most recent action that is not a turn
RECURSIVE SinceOther(_)
SinceOther(actions) ==
    IF actions = << >> \/ ~ContainsTURN(actions[Len(actions)]) THEN << >>
    ELSE Append(SinceOther(SubSeq(actions, 1, Len(actions) - 1)),
                actions[Len(actions)])

Count(actions, name) == Cardinality({ i \in DOMAIN actions : actions[i] = name })

\* C20: an update with an action that is not a turn leaves the left-turn
\* count, the right-turn count and the exported coverage delta at zero, and
\* nothing else resets the counts: each equals the number of TURN_LEFT
\* (TURN_RIGHT) actions since the most recent other action or reset, a
\* counted sweep included.
C20_TurnCounts ==
    LET actions == em.last_20_actions
    IN  /\ em.total_left_turns = Count(SinceOther(actions), "TURN_LEFT")
        /\ em.total_right_turns = Count(SinceOther(actions), "TURN_RIGHT")
        /\ (actions # << >> /\ ~ContainsTURN(actions[Len(actions)])) =>
              /\ em.total_left_turns = 0
              /\ em.total_right_turns = 0
              /\ em.delta_sight_coverage = Num(0)
              /\ em.metric.delta_sight_coverage = Num(0)

\* C20 witness: after turns and a counted sweep's worth of coverage, an
\* update that moves forward while the coverage grows: counts and delta 0
C20_Witness ==
    /\ Len(em.last_20_actions) >= 4
    /\ em.last_20_actions[Len(em.last_20_actions)] = "MOVE_FORWARD"
    /\ em.last_20_actions[Len(em.last_20_actions) - 1] = "TURN_RIGHT"
    /\ em.sight_coverage = get_visible_area(FogMap(4))
    /\ em.total_right_turns = 0
    /\ em.metric.delta_sight_coverage = Num(0)

(***************************************************************************)
(* Properties of the action window                                          *)
(***************************************************************************)
\* the last k elements of a sequence
LastOf(q, k) == SubSeq(q, Len(q) - k + 1, Len(q))

\* C21: after every update the action window holds at most 20 names: the
\* names of the last min(n, 20) of the n updates made since the last reset,
\* in their order, the most recent last.
C21_ActionWindow ==
    LET n == Len(em.actions_since_reset)
    IN  /\ Len(em.last_20_actions) <= 20
        /\ em.last_20_actions
             = LastOf(em.actions_since_reset, IF n < 20 THEN n ELSE 20)

\* C21 witness: 22 updates made, the second of them a turn that has left
\* the window, the 21st a turn that is the window's last but one
C21_Witness ==
    /\ Len(em.actions_since_reset) = 22
    /\ em.actions_since_reset[2] = "TURN_LEFT"
    /\ em.actions_since_reset[21] = "TURN_RIGHT"
    /\ Len(em.last_20_actions) = 20
    /\ em.last_20_actions[19] = "TURN_RIGHT"
    /\ \A i \in 1..20 : em.last_20_actions[i] # "TURN_LEFT"

(***************************************************************************)
(* Properties of the revisit detection                                      *)
(***************************************************************************)
\* the step is an update_metric call of ExplorationMetrics, of any length
\* of episode
EmUpdated ==
    Len(em'.actions_since_reset) = Len(em.actions_since_reset) + 1

\* the rooms of the scene that contain the position the update reads
RoomsAt(position) ==
    { em.room_aabbs[i][1] : i \in { j \in 1..Len(em.room_aabbs) :
        \E k \in 1..Len(em.room_aabbs[j][2]) :
            ExplorationMetrics_aabb_contains(position, em.room_aabbs[j][2][k]) } }

\* the agent is back in the room two entries down the stack, having been in
\* another since
BackInRoom(room) ==
    LET stack == em.previous_room_stack
    IN  /\ Len(stack) >= 2
        /\ stack[Len(stack) - 1] = room
        /\ stack[Len(stack)] # room

\* C22 as stated: an update changes a room's revisitation counter only when
\* the agent's current room is the entry two back in the stack and not the
\* most recent entry, and at most 10 steps (for the strict counter between
\* 8 and 14 steps) have elapsed since the most recent entry was pushed.
C22_Original ==
    [][EmUpdated =>
         /\ em'.room_revisitation_map # em.room_revisitation_map =>
               \E room \in RoomsAt(sim_position') :
                   /\ BackInRoom(room)
                   /\ em.updates_since_push <= 10
         /\ em'.room_revisitation_map_strict # em.room_revisitation_map_strict =>
               \E room \in RoomsAt(sim_position') :
                   /\ BackInRoom(room)
                   /\ em.updates_since_push >= 8
                   /\ em.updates_since_push <= 14]_vars

(***************************************************************************)
(* Properties of the coverage ratios                                        *)
(***************************************************************************)
\* an update of this episode has published the ratios of the map
RatiosPublished == em.metric.kind = "dict" /\ em.actions_since_reset # << >>

NavigableCells(info) ==
    { c \in 1..Len(info.map) : info.map[c] = 1 \/ info.map[c] >= 10 }
VisitedCells(info) == { c \in 1..Len(info.map) : info.map[c] > 9 }

\* C23 as stated: the coverage ratio and the visible-area ratio are both 0
\* when there is no map and when the map's navigable area is 0.
C23_Original ==
    LET info == measures.top_down_map
    IN  RatiosPublished /\ (~info.available \/ NavigableCells(info) = {}) =>
            /\ em.metric.coverage = Num(0)
            /\ em.metric.sight_coverage = Num(0)

\* C24: with a navigable area above 0 the visited cells are among the
\* navigable ones, the coverage ratio lies in [0, 1], the visible-area ratio
\* is at most 1, and the coverage ratio is 1 exactly when every navigable
\* cell is visited.
C24_RatiosBounded ==
    LET info == measures.top_down_map
    IN  RatiosPublished /\ info.available /\ NavigableCells(info) # {} =>
            /\ Cardinality(VisitedCells(info)) <= Cardinality(NavigableCells(info))
            /\ em.metric.coverage.kind = "num"
            /\ em.metric.coverage.v >= 0 /\ em.metric.coverage.v <= Scale
            /\ em.metric.sight_coverage.kind = "num"
            /\ em.metric.sight_coverage.v >= 0 /\ em.metric.sight_coverage.v <= Scale
            /\ em.metric.coverage.v = Scale <=> VisitedCells(info) = NavigableCells(info)

\* half of the navigable cells visited beside a cell of label 9, and more
\* cells seen than are navigable
C24_Witness ==
    /\ RatiosPublished
    /\ measures.top_down_map = TopDown(<<10, 1, 9>>, <<1, 1, 1>>)
    /\ em.metric.coverage = Num(Scale \div 2)
    /\ em.metric.sight_coverage = Num(Scale)

(***************************************************************************)
(* Properties of the goal regions                                           *)
(***************************************************************************)
\* region i is held in goal_rooms under its category name
MarkedGoalRegion(i) ==
    \E n \in 1..Len(rvm_goal_rooms) :
        /\ rvm_goal_rooms[n][1] = RegionAt(i).category
        /\ \E k \in 1..Len(rvm_goal_rooms[n][2]) :
               rvm_goal_rooms[n][2][k] = RegionAt(i).aabb

\* C25 as stated: after reset_metric a region is marked as a goal region
\* exactly when it contains some view point of some goal of the episode,
\* at whichever position of the goal's list of view points.
C25_Original ==
    rvm_metric.kind # "None" =>
        \A i \in RegionIds :
            MarkedGoalRegion(i) <=>
                \E g \in 1..Len(episode_goals) :
                    \E v \in 1..Len(episode_goals[g]) :
                        RoomVisitationMap_aabb_contains(episode_goals[g][v], RegionAt(i).aabb)

(***************************************************************************)
(* Properties of the published metric values                                *)
(***************************************************************************)
\* what the host reads in a metric dict of RoomVisitationMap it holds, when
\* the object's room_visitation_map has the given contents: the dict keeps
\* the sum it was built with and a reference to the object's own dict
RvmRetrieved(metric, room_visitation_map) ==
    [time_spent_goal_room |-> metric.time_spent_goal_room,
     room_visitation_map |-> room_visitation_map]

\* C26 as stated: the metric value retrieved after one update is not
\* changed by a later update of the same episode.
C26_Original ==
    [][rvm_metric.kind = "dict" /\ rvm_metric'.kind = "dict" =>
         RvmRetrieved(rvm_metric, rvm_room_visitation_map') =
             RvmRetrieved(rvm_metric, rvm_room_visitation_map)]_vars

(***************************************************************************)
(* Properties of a scene without regions                                    *)
(***************************************************************************)
\* C27: in an episode whose scene has no regions, reset_metric and every
\* update_metric leave all visitation counters and time_spent_goal_room at
\* zero, wherever the agent is.
C27_NoRegions ==
    rvm_metric.kind # "None" /\ SceneRegions(sim_scene) = << >> =>
        /\ \A k \in Categories : /\ Get(rvm_room_visitation_map, k) = 0
                                 /\ Get(rvm_goal_room_visitation_map, k) = 0
        /\ rvm_room_visitation_map = EmptyDict
        /\ rvm_goal_room_visitation_map = EmptyDict
        /\ rvm_room_aabbs = << >> /\ rvm_goal_rooms = << >>
        /\ rvm_metric.kind = "dict" => rvm_metric.time_spent_goal_room = 0

\* an update of an episode without regions, the agent standing where the
\* rooms of other scenes are
C27_Witness ==
    /\ sim_scene = SceneEmpty
    /\ rvm_metric.kind = "dict"
    /\ sim_position = PosAC
    /\ rvm_metric.time_spent_goal_room = 0
    /\ rvm_room_visitation_map = EmptyDict

(***************************************************************************)
(* Properties of RegionLevelInfo._is_in                                     *)
(***************************************************************************)
\* C28 as stated: _is_in answers true for the points strictly inside the
\* padded box, false for the points outside it on some axis, and true for
\* the points on its edge.
C28_Original ==
    "is_in" \in g_called => (g_out.is_in <=> PaddedContains(g_loc, g_aabb))

(***************************************************************************)
(* Properties of the current room                                           *)
(***************************************************************************)
\* the positions in room_aabbs.items() of the rooms that contain the position
RoomIndexesAt(position) ==
    { j \in 1..Len(em.room_aabbs) :
        \E k \in 1..Len(em.room_aabbs[j][2]) :
            ExplorationMetrics_aabb_contains(position, em.room_aabbs[j][2][k]) }

\* C29 as stated: when several regions contain the agent position, the room
\* the update takes as the current room, which is then the top of the
\* room-visit history stack, is the first containing region in iteration
\* order.
C29_Original ==
    [][EmUpdated /\ RoomIndexesAt(sim_position') # {} =>
         LET first == CHOOSE j \in RoomIndexesAt(sim_position') :
                          \A i \in RoomIndexesAt(sim_position') : j <= i
             stack == em'.previous_room_stack
         IN  /\ stack # << >>
             /\ stack[Len(stack)] = em.room_aabbs[first][1]]_vars

(***************************************************************************)
(* Properties of DistanceToGoalReward                                       *)
(***************************************************************************)
\* C30 as stated: the metric an update publishes is the distance recorded
\* by the previous update (or by reset) minus the current distance, plus
\* SUCCESS_REWARD when Success is asserted.
C30_Original ==
    [][dgr'.raised = "none" /\ dgr'.last_call = "update_metric" =>
         dgr'.metric = << dgr.previous_distance_to_target
                          - measures'.distance_to_goal
                          + (IF measures'.success THEN SUCCESS_REWARD ELSE 0) >>]_vars

(***************************************************************************)
(* Properties of the beeline flag                                           *)
(***************************************************************************)
\* the lengths of the stretches of the window that hold MOVE_FORWARD only
ForwardStretches(window) ==
    { j - i + 1 : <<i, j>> \in { p \in (1..Len(window)) \X (1..Len(window)) :
        /\ p[1] <= p[2]
        /\ \A n \in p[1]..p[2] : window[n] = "MOVE_FORWARD" } } \cup {0}

\* C31: whenever the beeline flag has been computed the action window is
\* not empty, and the flag is true exactly when the longest run of
\* consecutive MOVE_FORWARD actions in the window is at least half of the
\* window's length.
C31_Beeline ==
    em.metric.kind = "dict" =>
        LET window == em.last_20_actions
        IN  /\ Len(window) >= 1
            /\ em.metric.beeline \in {"True", "False"}
            /\ em.metric.beeline = "True" <=>
                   \E r \in ForwardStretches(window) : 2 * r >= Len(window)

\* a full window of an episode of 22 updates, cut by two turns into runs
\* shorter than 10
C31_Witness ==
    /\ em.metric.kind = "dict"
    /\ Len(em.actions_since_reset) = 22
    /\ Len(em.last_20_actions) = 20
    /\ em.metric.beeline = "False"

(***************************************************************************)
(* Properties of the two sweep counts                                       *)
(***************************************************************************)
\* the lenient sweep count is at most the strict one, in the object and in
\* the metric it has published
LenientAtMostStrict ==
    /\ em.panoramic_turns <= em.panoramic_turns_strict
    /\ em.metric.kind = "dict" =>
          em.metric.panoramic_turns <= em.metric.panoramic_turns_strict

\* C32: the sweep count of threshold 0.015 never exceeds the sweep count of
\* threshold 0.01, and no update lowers either count.
C32_SweepCounts ==
    /\ []LenientAtMostStrict
    /\ [][em'.metric.kind = "dict" =>
             /\ em'.panoramic_turns >= em.panoramic_turns
             /\ em'.panoramic_turns_strict >= em.panoramic_turns_strict
             /\ em'.metric.panoramic_turns >= em.panoramic_turns
             /\ em'.metric.panoramic_turns_strict >= em.panoramic_turns_strict]_vars

\* two sweeps in a row, the first with a coverage delta between the two
\* thresholds, and a further update that counts none
C32_Witness ==
    /\ em.metric.kind = "dict"
    /\ Len(em.actions_since_reset) = 10
    /\ em.metric.panoramic_turns_strict = 2
    /\ em.metric.panoramic_turns = 1

(***************************************************************************)
(* Properties of the goal-region counts                                     *)
(***************************************************************************)
\* the sum of a counter over the region names
SumOverNames(counter) ==
    Get(counter, "bedroom") + Get(counter, "kitchen") + Get(counter, "hallway")

\* C33: for every region name the goal-region count is at most the
\* visitation count, and the published time_spent_goal_room is the sum of
\* the goal-region counts and at most the sum of the visitation counts.
C33_GoalCounts ==
    /\ DOMAIN rvm_room_visitation_map \subseteq Categories
    /\ DOMAIN rvm_goal_room_visitation_map \subseteq Categories
    /\ \A k \in Categories :
           Get(rvm_goal_room_visitation_map, k) <= Get(rvm_room_visitation_map, k)
    /\ rvm_metric.kind = "dict" =>
          /\ rvm_metric.time_spent_goal_room = SumOverNames(rvm_goal_room_visitation_map)
          /\ rvm_metric.time_spent_goal_room <= SumOverNames(rvm_room_visitation_map)

\* updates in a goal region and in a region that holds no goal
C33_Witness ==
    /\ rvm_metric.kind = "dict"
    /\ rvm_metric.time_spent_goal_room = 1
    /\ Get(rvm_goal_room_visitation_map, "kitchen") = 1
    /\ Get(rvm_room_visitation_map, "kitchen") = 1
    /\ Get(rvm_room_visitation_map, "bedroom") >= 1
    /\ Get(rvm_goal_room_visitation_map, "bedroom") = 0

(***************************************************************************)
(* Properties of the revisitation counters                                  *)
(***************************************************************************)
\* no room has the count 1 in the counter
NeverOne(counter) == \A room \in DOMAIN counter : counter[room] # 1

\* every room's count is kept, or goes from 0 to 2, or goes up by 1
CountedOn(old, new) ==
    \A room \in DOMAIN old \cup DOMAIN new :
        \/ Get(new, room) = Get(old, room)
        \/ Get(old, room) = 0 /\ Get(new, room) = 2
        \/ Get(old, room) >= 2 /\ Get(new, room) = Get(old, room) + 1

\* C34: no lenient or strict revisitation counter is ever 1; an update
\* leaves a counter as it is, takes it from 0 to 2 or adds exactly 1 to it,
\* so that no counter decreases within an episode.
C34_RevisitCounters ==
    /\ [](NeverOne(em.room_revisitation_map) /\ NeverOne(em.room_revisitation_map_strict))
    /\ [][EmUpdated =>
             /\ CountedOn(em.room_revisitation_map, em'.room_revisitation_map)
             /\ CountedOn(em.room_revisitation_map_strict,
                          em'.room_revisitation_map_strict)]_vars

\* a room revisited a second time after a long stay in the other room
C34_Witness ==
    \E room \in DOMAIN em.room_revisitation_map_strict :
        /\ em.room_revisitation_map_strict[room] = 3
        /\ Get(em.room_revisitation_map, room) = 3

(***************************************************************************)
(* Properties of the room-visit history stack                               *)
(***************************************************************************)
\* the stack holds rooms only, and no room twice in a row
StackWellFormed ==
    LET stack == em.previous_room_stack
    IN  /\ \A i \in 1..Len(stack) : stack[i] # NoRoom
        /\ \A i \in 1..(Len(stack) - 1) : stack[i] # stack[i + 1]

\* C35: the room-visit history stack never holds an absent room nor two
\* equal adjacent entries; a peeking event is detected only on the update
\* that pushes the room the agent has entered, and an update that leaves
\* the stack as it is (the agent staying in its room, or in no room)
\* changes no revisitation counter.
C35_PeekOncePerEntry ==
    /\ []StackWellFormed
    /\ [][EmUpdated =>
             /\ \A room \in RoomsAt(sim_position') :
                    BackInRoom(room) =>
                        em'.previous_room_stack = Append(em.previous_room_stack, room)
             /\ em'.previous_room_stack = em.previous_room_stack =>
                    /\ em'.room_revisitation_map = em.room_revisitation_map
                    /\ em'.room_revisitation_map_strict = em.room_revisitation_map_strict]_vars

\* the agent has come back to a room, was counted, left both rooms and
\* stayed: its room counter is 2 and the stack ends with the room
C35_Witness ==
    LET stack == em.previous_room_stack
    IN  /\ Len(stack) = 3
        /\ stack[1] = stack[3]
        /\ Get(em.room_revisitation_map, stack[3]) = 2
        /\ em.steps_between_rooms >= 3
        /\ sim_position = PosOut
====
